---- MODULE Spec2Model ----
(***************************************************************************)
(* A model of DockedUp: the interactive state of the dashboard (AppState), *)
(* the input thread with its action dispatcher, the render loop of main(), *)
(* and the container monitor.                                              *)
(*                                                                         *)
(* Indices are those of the Python code: selected_index and the values of  *)
(* container_id_to_index are 0-based; the element a 0-based index i refers *)
(* to is all_containers[i + 1] of the TLA+ sequence.                       *)
(***************************************************************************)
EXTENDS Integers, Sequences, FiniteSets, TLC

VARIABLES
    \* AppState (cli.py 55-63)
    all_containers,         \* List[Dict]: the flat list
    selected_index,         \* int, 0-based
    container_id_to_index,  \* Dict[str, int]
    current_page,           \* int
    ui_updated_event,       \* threading.Event: TRUE when set
    \* the most recent AppState call and the state it found (history)
    last_call,
    \* main() (cli.py 331-410)
    should_quit,            \* threading.Event: TRUE when set
    live,                   \* the Live display: started, and the refresh
                            \* argument of the last start()
    monitor_state,          \* "new", "running" (run() called), "stopped"
    main_pc,                \* where the main thread is
    grouped_data,           \* the snapshot the render loop holds
    input_pc,               \* where the input thread is
    key,                    \* the key readkey() returned to input_worker
    action,                 \* the run_docker_command call in progress
    cmd_runs,               \* external commands it has started
    exc,                    \* the exception in flight in the input thread
    selected_at_key,        \* the id selected when readkey() returned (history)
    \* the container monitor and the daemon it watches
    daemon,                 \* id -> the state the daemon holds the container in
    events,                 \* the daemon's event stream, not yet consumed
    monitor_containers,     \* monitor.containers, the map id -> record
    stats_workers,          \* ids with a stats worker pumping samples
    stopping,               \* id -> stats workers signalled and not yet ended
    joined,                 \* the id whose signalled worker remove() joins
    event_pc,               \* where the event worker is
    stop_event,             \* the monitor's stop signal: TRUE when set
    last_event,             \* the event the event worker handled last
    \* the production of a snapshot
    listing,                \* the containers in the order they are met
    groups,                 \* the snapshot: <<[project, containers], ...>>
    \* the formatters of a stats sample (utils.py)
    stats,                  \* the stats sample handed to the formatters
    cpu,                    \* what calculate_cpu_percent returned for it
    memory,                 \* what format_memory_stats returned for it
    \* generate_ui building a frame (cli.py 203-278)
    frame_pc,               \* where generate_ui is
    clamped_page,           \* the clamped page generate_ui is to assign
    todo,                   \* the containers whose rows are still to add
    rows                    \* the rows added to the tables of the frame

appVars == <<all_containers, selected_index, container_id_to_index,
             current_page, ui_updated_event>>

cliVars == <<should_quit, live, monitor_state, main_pc, grouped_data,
             input_pc, key, action, cmd_runs, exc, selected_at_key>>

monVars == <<daemon, events, monitor_containers, stats_workers, stopping,
             joined, event_pc, stop_event, last_event>>

vars == <<all_containers, selected_index, container_id_to_index,
          current_page, ui_updated_event, last_call,
          should_quit, live, monitor_state, main_pc, grouped_data,
          input_pc, key, action, cmd_runs, exc, selected_at_key,
          daemon, events, monitor_containers, stats_workers, stopping,
          joined, event_pc, stop_event, last_event, listing, groups,
          stats, cpu, memory, frame_pc, clamped_page, todo, rows>>

snapVars == <<listing, groups>>

fmtVars == <<stats, cpu, memory>>

frameVars == <<frame_pc, clamped_page, todo, rows>>

----------------------------------------------------------------------------
(* Bounds of the model *)

\* how many containers of ContainerPool the daemon may hold
NumContainers == 7

\* update_containers is also called with every ordering of every selection
\* of the first NumPerm containers of the pool
NumPerm == 3

----------------------------------------------------------------------------
(* The containers the lists are drawn from.  A container's id and compose  *)
(* project never change.  Strings are ordered as Python orders them: the   *)
(* two sequences below list the names and the projects in ascending order. *)

ContainerPool ==
    << [id |-> "c1", name |-> "A",   project |-> "p1", status |-> "Up"],
       [id |-> "c2", name |-> "B",   project |-> "p2", status |-> "Down"],
       [id |-> "c3", name |-> "AA",  project |-> "p1", status |-> "Up"],
       [id |-> "c4", name |-> "web", project |-> "p3", status |-> "Up"],
       [id |-> "c5", name |-> "db",  project |-> "p4", status |-> "Down"],
       [id |-> "c6", name |-> "api", project |-> "p5", status |-> "Up"],
       [id |-> "c7", name |-> "job", project |-> "p6", status |-> "Up"],
       [id |-> "c8", name |-> "log", project |-> "p7", status |-> "Up"],
       [id |-> "c9", name |-> "mq",  project |-> "p2", status |-> "Up"] >>

NameOrder == <<"A", "AA", "B", "api", "db", "job", "log", "mq", "web">>

ProjectOrder == <<"p1", "p2", "p3", "p4", "p5", "p6", "p7">>

Rank(order, s) == CHOOSE i \in 1..Len(order) : order[i] = s

Containers == {ContainerPool[i] : i \in 1..NumContainers}

\* None of Python
None == "None"

\* None of Python where the code expects a dict
NoneDict == [none |-> TRUE]

\* the truth value Python gives an id in "if current_id and ..."
Truthy(x) == x # None /\ x # ""

Min(a, b) == IF a < b THEN a ELSE b

Max(a, b) == IF a > b THEN a ELSE b

----------------------------------------------------------------------------
(* generate_ui's flat list: the projects in ascending order, the           *)
(* containers of a project in ascending order of name.                     *)

Before(c, d) ==
    \/ Rank(ProjectOrder, c.project) < Rank(ProjectOrder, d.project)
    \/ /\ c.project = d.project
       /\ Rank(NameOrder, c.name) < Rank(NameOrder, d.name)

RECURSIVE FlatList(_)
FlatList(S) ==
    IF S = {} THEN <<>>
    ELSE LET m == CHOOSE c \in S : \A d \in S \ {c} : Before(c, d)
         IN  <<m>> \o FlatList(S \ {m})

\* every sequence of distinct elements of S, of every length
RECURSIVE Arrangements(_)
Arrangements(S) ==
    {<<>>} \cup UNION { {<<c>> \o t : t \in Arrangements(S \ {c})} : c \in S }

\* the lists update_containers is called with: the flat list of every set
\* of containers, and every arrangement of the first NumPerm containers
SortedLists == {FlatList(S) : S \in SUBSET Containers}

PermLists == Arrangements({ContainerPool[i] : i \in 1..NumPerm})

Lists == SortedLists \cup PermLists

----------------------------------------------------------------------------
(* AppState *)

projects_per_page == 5

IdsOf(L) == {L[i].id : i \in 1..Len(L)}

\* {c.get('id'): i for i, c in enumerate(containers)}: the last index wins
IdToIndex(L) ==
    [x \in IdsOf(L) |->
        (CHOOSE i \in 1..Len(L) :
            L[i].id = x /\ \A j \in 1..Len(L) : L[j].id = x => j <= i) - 1]

\* sorted(set(c['project'] for c in all_containers))
SortedProjects(L) ==
    SelectSeq(ProjectOrder, LAMBDA p : \E i \in 1..Len(L) : L[i].project = p)

\* (len(projects) + projects_per_page - 1) // projects_per_page
TotalPages(L) ==
    (Len(SortedProjects(L)) + projects_per_page - 1) \div projects_per_page

get_selected_container_id_unsafe ==
    IF all_containers # <<>> /\ 0 <= selected_index
                             /\ selected_index < Len(all_containers)
    THEN all_containers[selected_index + 1].id
    ELSE None

get_selected_container ==
    IF all_containers # <<>> /\ 0 <= selected_index
                             /\ selected_index < Len(all_containers)
    THEN all_containers[selected_index + 1]
    ELSE NoneDict

\* a slip in lines 72-77: the old index is kept when the id is gone
NewSelectedIndexKept(current_id, id_to_index) ==
    IF Truthy(current_id) /\ current_id \in DOMAIN id_to_index
    THEN id_to_index[current_id]
    ELSE selected_index

\* a slip in lines 72-77: the old index is clamped into the new list
\* instead of following the id
NewSelectedIndexClamped(current_id, id_to_index) ==
    Max(0, Min(selected_index, Cardinality(DOMAIN id_to_index) - 1))

\* lines 72-77 of update_containers: where the selection goes
NewSelectedIndex(current_id, id_to_index) ==
    IF Truthy(current_id) /\ current_id \in DOMAIN id_to_index
    THEN id_to_index[current_id]
    ELSE 0

update_containers(containers) ==
    LET current_id == get_selected_container_id_unsafe
        id_to_index == IdToIndex(containers)
    IN  /\ all_containers' = containers
        /\ container_id_to_index' = id_to_index
        /\ selected_index' = NewSelectedIndex(current_id, id_to_index)
        /\ UNCHANGED <<current_page, ui_updated_event>>

\* a slip in lines 100-101: the index wraps around the ends
ClampedIndexWrapped(index, delta, length) == (index + delta) % length

\* lines 100-101 of move_selection
ClampedIndex(index, delta, length) == Max(0, Min(index + delta, length - 1))

\* lines 109-115 of move_selection: the page of the project of the
\* container at index (0-based) of L
PageOfIndex(L, index) ==
    (Rank(SortedProjects(L), L[index + 1].project) - 1) \div projects_per_page

\* a slip: the event is set on the early returns too
move_selectionSignalsAlways(delta) ==
    IF all_containers = <<>>
    THEN /\ selected_index' = 0
         /\ ui_updated_event' = TRUE
         /\ UNCHANGED <<all_containers, container_id_to_index, current_page>>
    ELSE LET new_index ==
                 ClampedIndex(selected_index, delta, Len(all_containers))
         IN  /\ selected_index' = new_index
             /\ current_page' =
                   IF new_index = selected_index
                   THEN current_page
                   ELSE PageOfIndex(all_containers, new_index)
             /\ ui_updated_event' = TRUE
             /\ UNCHANGED <<all_containers, container_id_to_index>>

move_selection(delta) ==
    IF all_containers = <<>>
    THEN /\ selected_index' = 0
         /\ UNCHANGED <<all_containers, container_id_to_index, current_page,
                        ui_updated_event>>
    ELSE LET new_index ==
                 ClampedIndex(selected_index, delta, Len(all_containers))
         IN  IF new_index = selected_index
             THEN UNCHANGED appVars
             ELSE /\ selected_index' = new_index
                  /\ current_page' = PageOfIndex(all_containers, new_index)
                  /\ ui_updated_event' = TRUE
                  /\ UNCHANGED <<all_containers, container_id_to_index>>

\* a slip in lines 126-128: the page is clamped at both ends
NewPageClamped(page, delta, total_pages) ==
    Max(0, Min(page + delta, total_pages - 1))

\* line 126-128 of change_page: Python's % has the sign of the divisor
NewPage(page, delta, total_pages) == (page + delta) % total_pages

\* lines 130-138 of change_page: the index of the first container of the
\* first project of the page, 0 when the page starts past the projects
FirstIndexOfPage(L, page) ==
    LET projects == SortedProjects(L)
        start_project_index == page * projects_per_page
    IN  IF projects # <<>> /\ start_project_index < Len(projects)
        THEN (CHOOSE i \in 1..Len(L) :
                 /\ L[i].project = projects[start_project_index + 1]
                 /\ \A j \in 1..(i - 1) :
                        L[j].project # projects[start_project_index + 1]) - 1
        ELSE 0

change_page(delta) ==
    LET total_pages == TotalPages(all_containers)
    IN  IF total_pages = 0
        THEN UNCHANGED appVars
        ELSE LET page == NewPage(current_page, delta, total_pages)
             IN  /\ current_page' = page
                 /\ selected_index' = FirstIndexOfPage(all_containers, page)
                 /\ ui_updated_event' = TRUE
                 /\ UNCHANGED <<all_containers, container_id_to_index>>

----------------------------------------------------------------------------
(* The AppState on its own: any sequence of calls.  last_call holds the    *)
(* call that has just returned and the state it started from; Forget       *)
(* drops it before the next call.                                          *)

NoCall == [op |-> "none"]

Called(op, arg) ==
    [op |-> op, arg |-> arg, containers |-> all_containers,
     index |-> selected_index, page |-> current_page,
     id |-> get_selected_container_id_unsafe]

InitAppState ==
    /\ all_containers = <<>>
    /\ selected_index = 0
    /\ container_id_to_index = [x \in {} |-> 0]
    /\ current_page = 0
    /\ ui_updated_event = FALSE

InitCli ==
    /\ should_quit = FALSE
    /\ live = [started |-> FALSE, refresh |-> FALSE]
    /\ monitor_state = "new"
    /\ main_pc = "enter_live"
    /\ grouped_data = {}
    /\ input_pc = "unstarted"
    /\ key = None
    /\ action = NoneDict
    /\ cmd_runs = 0
    /\ exc = None
    /\ selected_at_key = None

\* how many containers of ContainerPool the daemon of the monitor holds
NumMonContainers == 2

\* the ids the daemon may give its containers
MonIds == {ContainerPool[i].id : i \in 1..NumMonContainers}

\* ContainerMonitor(client): an empty map, no worker, the stop signal
\* clear; the daemon holds no container yet and its stream is not open
InitMonitor ==
    /\ daemon = [id \in MonIds |-> "absent"]
    /\ events = <<>>
    /\ monitor_containers = [id \in {} |-> NoneDict]
    /\ stats_workers = {}
    /\ stopping = [id \in MonIds |-> 0]
    /\ joined = None
    /\ event_pc = "unstarted"
    /\ stop_event = FALSE
    /\ last_event = NoneDict

\* the program after construction of AppState, Live and the monitor
Init ==
    /\ InitAppState
    /\ last_call = NoCall
    /\ InitCli
    /\ InitMonitor
    /\ listing = <<>>
    /\ groups = <<>>
    /\ stats = NoneDict
    /\ cpu = NoneDict
    /\ memory = NoneDict
    /\ frame_pc = "idle"
    /\ clamped_page = 0
    /\ todo = <<>>
    /\ rows = <<>>

UpdateContainers ==
    /\ last_call = NoCall
    /\ \E L \in Lists :
          /\ update_containers(L)
          /\ last_call' = Called("update_containers", L)
    /\ UNCHANGED cliVars
    /\ UNCHANGED monVars
    /\ UNCHANGED <<snapVars, fmtVars, frameVars>>

MoveSelection ==
    /\ last_call = NoCall
    /\ \E delta \in {-1, 1} :
          /\ move_selection(delta)
          /\ last_call' = Called("move_selection", delta)
    /\ UNCHANGED cliVars
    /\ UNCHANGED monVars
    /\ UNCHANGED <<snapVars, fmtVars, frameVars>>

ChangePage ==
    /\ last_call = NoCall
    /\ \E delta \in {-1, 1} :
          /\ change_page(delta)
          /\ last_call' = Called("change_page", delta)
    /\ UNCHANGED cliVars
    /\ UNCHANGED monVars
    /\ UNCHANGED <<snapVars, fmtVars, frameVars>>

\* the render loop's ui_updated_event.clear()
ClearEvent ==
    /\ last_call = NoCall
    /\ ui_updated_event
    /\ ui_updated_event' = FALSE
    /\ UNCHANGED <<all_containers, selected_index, container_id_to_index,
                   current_page, last_call>>
    /\ UNCHANGED cliVars
    /\ UNCHANGED monVars
    /\ UNCHANGED <<snapVars, fmtVars, frameVars>>

Forget ==
    /\ last_call # NoCall
    /\ last_call' = NoCall
    /\ UNCHANGED appVars
    /\ UNCHANGED cliVars
    /\ UNCHANGED monVars
    /\ UNCHANGED <<snapVars, fmtVars, frameVars>>

NextState ==
    \/ UpdateContainers
    \/ MoveSelection
    \/ ChangePage
    \/ ClearEvent
    \/ Forget

SpecState == Init /\ [][NextState]_vars

----------------------------------------------------------------------------
(* Claims about the AppState *)

\* the position (0-based) of the container with id x in L
PositionOf(L, x) == (CHOOSE i \in 1..Len(L) : L[i].id = x) - 1

\* C1: after any sequence of update_containers, move_selection and
\* change_page calls, 0 <= selected_index < max(1, len(all_containers));
\* so selected_index is 0 when the list is empty.
C1_SelectedIndexInRange ==
    /\ 0 <= selected_index
    /\ selected_index < Max(1, Len(all_containers))
    /\ (all_containers = <<>> => selected_index = 0)

\* C1's case: update_containers found the selection at an index the new
\* (non-empty) list no longer has, and the id that was selected is gone.
C1_Witness ==
    /\ last_call.op = "update_containers"
    /\ all_containers # <<>>
    /\ last_call.index >= Len(all_containers)
    /\ last_call.id # None
    /\ last_call.id \notin IdsOf(all_containers)

\* C2: if the container selected before update_containers(L) has id X and
\* X occurs in L, then after the call selected_index is the position of X
\* in L.
C2_IdentityPreserved ==
    (/\ last_call.op = "update_containers"
     /\ last_call.id # None
     /\ last_call.id \in IdsOf(all_containers))
    => /\ selected_index = PositionOf(all_containers, last_call.id)
       /\ get_selected_container_id_unsafe = last_call.id

\* C2's case: A, B with B selected (index 1); AA appears; B is selected at
\* index 2.
C2_Witness ==
    /\ last_call.op = "update_containers"
    /\ last_call.containers = <<ContainerPool[1], ContainerPool[2]>>
    /\ last_call.index = 1
    /\ all_containers = <<ContainerPool[1], ContainerPool[3], ContainerPool[2]>>
    /\ selected_index = 2

----------------------------------------------------------------------------
(* main(): the render loop (main thread) and input_worker (input thread)   *)

\* how many containers of ContainerPool the monitor's snapshots hold here
NumCliContainers == 1

\* what monitor.get_grouped_containers() may return: the groups, as the
\* set of their records (a record's group is its project)
CliSnapshots == SUBSET {ContainerPool[i] : i \in 1..NumCliContainers}

\* what readchar.readkey() may return to input_worker
Keys == {"CTRL_C", "q", "Q", "UP", "k", "DOWN", "j", "PAGE_UP", "PAGE_DOWN",
         "?", "l", "r", "R", "x", "s", "z"}

\* what readchar.readkey() may return at the confirmation prompt
Answers == {"y", "Y", "n"}

\* str.lower() on the keys above
Lower(k) ==
    CASE k = "Q" -> "q"
      [] k = "R" -> "r"
      [] k = "Y" -> "y"
      [] OTHER   -> k

\* the docker command lines input_worker builds: command[1], the options
\* and the container id
Command(verb, flags, id) == [verb |-> verb, flags |-> flags, id |-> id]

\* line 362: 'Up' in container['status']
IsUp(container) == container.status = "Up"

\* a slip in lines 363-372: the name of the container is passed as the id
CommandOfKeyByName(k, container) ==
    CASE Lower(k) = "l" ->
             [command |-> Command("logs",
                                  IF IsUp(container) THEN {"-f", "--tail"}
                                                     ELSE {"--tail"},
                                  container.name),
              confirm |-> FALSE]
      [] Lower(k) = "r" ->
             [command |-> Command("restart", {}, container.name),
              confirm |-> TRUE]
      [] Lower(k) = "x" ->
             [command |-> Command("stop", {}, container.name),
              confirm |-> TRUE]
      [] Lower(k) = "s" ->
             [command |-> Command("exec", {"-it"}, container.name),
              confirm |-> FALSE]

\* lines 361-372: the command of an action key, and whether it is confirmed
CommandOfKey(k, container) ==
    CASE Lower(k) = "l" ->
             [command |-> Command("logs",
                                  IF IsUp(container) THEN {"-f", "--tail"}
                                                     ELSE {"--tail"},
                                  container.id),
              confirm |-> FALSE]
      [] Lower(k) = "r" ->
             [command |-> Command("restart", {}, container.id),
              confirm |-> TRUE]
      [] Lower(k) = "x" ->
             [command |-> Command("stop", {}, container.id),
              confirm |-> TRUE]
      [] Lower(k) = "s" ->
             [command |-> Command("exec", {"-it"}, container.id),
              confirm |-> FALSE]

\* lines 163-164
is_streaming_interactive(command) ==
    \/ command.verb = "exec" /\ "-it" \in command.flags
    \/ command.verb = "logs" /\ "-f" \in command.flags

\* a slip in lines 169-173: the command runs whatever the answer
ConfirmedWhatever(answer) == TRUE

\* lines 169-170: key = readchar.readkey().lower(); key != 'y' aborts
Confirmed(answer) == Lower(answer) = "y"

\* a slip in line 200: the display is restarted after the try statement,
\* not in a finally clause, so not when an exception leaves the function
LiveAfterActionNoFinally(e) ==
    IF e = None THEN [started |-> TRUE, refresh |-> TRUE] ELSE live

\* lines 200-201: finally: live_display.start(refresh=True), whatever
\* exception e is in flight
LiveAfterAction(e) == [started |-> TRUE, refresh |-> TRUE]

\* line 394: while not should_quit.is_set()
LoopContinues == ~should_quit

\* a slip in lines 405-409: monitor.stop() is called at the end of the
\* try block, not in the finally clause
MonitorAfterMainNoFinally(failed) ==
    IF failed THEN monitor_state ELSE "stopped"

\* lines 405-409: finally: monitor.stop(), also after an exception
MonitorAfterMain(failed) == "stopped"

\* lines 231-236 of generate_ui: the page clamped into the pages of L
\* a slip in lines 233-236: the page is left as it is
ClampedPageKept(L, page) == page

ClampedPage(L, page) ==
    IF TotalPages(L) > 0 THEN Max(0, Min(page, TotalPages(L) - 1)) ELSE 0

inputVars == <<input_pc, key, action, cmd_runs, exc, selected_at_key>>

mainVars == <<main_pc, grouped_data>>

(* ---- the main thread ---- *)

\* line 387: with Live(...) as live: the display is started
MainEnterLive ==
    /\ main_pc = "enter_live"
    /\ live' = [started |-> TRUE, refresh |-> FALSE]
    /\ main_pc' = "run"
    /\ UNCHANGED <<should_quit, monitor_state, grouped_data>>
    /\ UNCHANGED inputVars
    /\ UNCHANGED monVars
    /\ UNCHANGED <<snapVars, fmtVars, frameVars>>
    /\ UNCHANGED <<appVars, last_call>>

\* line 389: monitor.run()
MainRunMonitor ==
    /\ main_pc = "run"
    /\ monitor_state' = "running"
    /\ main_pc' = "start_input"
    /\ UNCHANGED <<should_quit, live, grouped_data>>
    /\ UNCHANGED inputVars
    /\ UNCHANGED monVars
    /\ UNCHANGED <<snapVars, fmtVars, frameVars>>
    /\ UNCHANGED <<appVars, last_call>>

\* lines 391-392: the input thread is started
MainStartInput ==
    /\ main_pc = "start_input"
    /\ input_pc' = "while"
    /\ main_pc' = "while"
    /\ UNCHANGED <<should_quit, live, monitor_state, grouped_data>>
    /\ UNCHANGED <<key, action, cmd_runs, exc, selected_at_key>>
    /\ UNCHANGED <<appVars, last_call>>
    /\ UNCHANGED monVars
    /\ UNCHANGED <<snapVars, fmtVars, frameVars>>

\* line 394, the test holds: a tick begins
MainLoopEnter ==
    /\ main_pc = "while"
    /\ LoopContinues
    /\ main_pc' = "snapshot"
    /\ UNCHANGED <<should_quit, live, monitor_state, grouped_data>>
    /\ UNCHANGED inputVars
    /\ UNCHANGED monVars
    /\ UNCHANGED <<snapVars, fmtVars, frameVars>>
    /\ UNCHANGED <<appVars, last_call>>

\* line 394, the test fails: the with block is left, Live stops
MainLoopExit ==
    /\ main_pc = "while"
    /\ ~LoopContinues
    /\ live' = [live EXCEPT !.started = FALSE]
    /\ main_pc' = "finally"
    /\ UNCHANGED <<should_quit, monitor_state, grouped_data>>
    /\ UNCHANGED inputVars
    /\ UNCHANGED monVars
    /\ UNCHANGED <<snapVars, fmtVars, frameVars>>
    /\ UNCHANGED <<appVars, last_call>>

\* line 395: grouped_data = monitor.get_grouped_containers()
MainSnapshot ==
    /\ main_pc = "snapshot"
    /\ \E S \in CliSnapshots : grouped_data' = S
    /\ main_pc' = "generate_ui"
    /\ UNCHANGED <<should_quit, live, monitor_state>>
    /\ UNCHANGED inputVars
    /\ UNCHANGED monVars
    /\ UNCHANGED <<snapVars, fmtVars, frameVars>>
    /\ UNCHANGED <<appVars, last_call>>

\* line 396, generate_ui lines 217-221: the flat list, update_containers
MainUpdateContainers ==
    /\ main_pc = "generate_ui"
    /\ update_containers(FlatList(grouped_data))
    /\ main_pc' = "page"
    /\ UNCHANGED <<should_quit, live, monitor_state, grouped_data>>
    /\ UNCHANGED inputVars
    /\ UNCHANGED monVars
    /\ UNCHANGED <<snapVars, fmtVars, frameVars>>
    /\ UNCHANGED last_call

\* generate_ui lines 223-278: the page is clamped, the layout is built
\* from the groups, which are not read again
MainLayout ==
    /\ main_pc = "page"
    /\ current_page' = IF all_containers = <<>>
                       THEN current_page
                       ELSE ClampedPage(all_containers, current_page)
    /\ main_pc' = "live_update"
    /\ UNCHANGED <<all_containers, selected_index, container_id_to_index,
                   ui_updated_event, last_call>>
    /\ grouped_data' = {}
    /\ UNCHANGED <<should_quit, live, monitor_state>>
    /\ UNCHANGED inputVars
    /\ UNCHANGED monVars
    /\ UNCHANGED <<snapVars, fmtVars, frameVars>>

\* line 397: live.update(ui_layout, refresh=True)
MainLiveUpdate ==
    /\ main_pc = "live_update"
    /\ main_pc' = "wait"
    /\ UNCHANGED <<should_quit, live, monitor_state, grouped_data>>
    /\ UNCHANGED inputVars
    /\ UNCHANGED monVars
    /\ UNCHANGED <<snapVars, fmtVars, frameVars>>
    /\ UNCHANGED <<appVars, last_call>>

\* line 399: ui_updated_event.wait(timeout=refresh_rate) returns, the
\* event set or the time out
MainWait ==
    /\ main_pc = "wait"
    /\ main_pc' = "clear"
    /\ UNCHANGED <<should_quit, live, monitor_state, grouped_data>>
    /\ UNCHANGED inputVars
    /\ UNCHANGED monVars
    /\ UNCHANGED <<snapVars, fmtVars, frameVars>>
    /\ UNCHANGED <<appVars, last_call>>

\* line 400: ui_updated_event.clear()
MainClear ==
    /\ main_pc = "clear"
    /\ ui_updated_event' = FALSE
    /\ main_pc' = "while"
    /\ UNCHANGED <<all_containers, selected_index, container_id_to_index,
                   current_page, last_call>>
    /\ UNCHANGED <<should_quit, live, monitor_state, grouped_data>>
    /\ UNCHANGED inputVars
    /\ UNCHANGED monVars
    /\ UNCHANGED <<snapVars, fmtVars, frameVars>>

\* an exception inside the with block (the monitor, generate_ui or the
\* display raise): Live stops as the block is left, lines 402-404 log it
MainRaise ==
    /\ main_pc \in {"run", "snapshot", "generate_ui", "page", "live_update"}
    /\ live' = [live EXCEPT !.started = FALSE]
    /\ main_pc' = "finally_failed"
    /\ UNCHANGED <<should_quit, monitor_state, grouped_data>>
    /\ UNCHANGED inputVars
    /\ UNCHANGED monVars
    /\ UNCHANGED <<snapVars, fmtVars, frameVars>>
    /\ UNCHANGED <<appVars, last_call>>

\* lines 405-410: the quit flag is set, monitor.stop(); the process ends
MainFinally ==
    /\ main_pc \in {"finally", "finally_failed"}
    /\ should_quit' = TRUE
    /\ monitor_state' = MonitorAfterMain(main_pc = "finally_failed")
    /\ main_pc' = "done"
    /\ UNCHANGED <<live, grouped_data>>
    /\ UNCHANGED inputVars
    /\ UNCHANGED monVars
    /\ UNCHANGED <<snapVars, fmtVars, frameVars>>
    /\ UNCHANGED <<appVars, last_call>>

MainThread ==
    \/ MainEnterLive
    \/ MainRunMonitor
    \/ MainStartInput
    \/ MainLoopEnter
    \/ MainLoopExit
    \/ MainSnapshot
    \/ MainUpdateContainers
    \/ MainLayout
    \/ MainLiveUpdate
    \/ MainWait
    \/ MainClear
    \/ MainRaise
    \/ MainFinally

(* ---- the input thread (a daemon thread: it ends with the process) ---- *)

InputAlive == main_pc # "done"

\* line 338: while not should_quit.is_set()
InputLoop ==
    /\ InputAlive
    /\ input_pc = "while"
    /\ input_pc' = IF should_quit THEN "end" ELSE "readkey"
    /\ UNCHANGED <<key, action, cmd_runs, exc>>
    /\ UNCHANGED <<should_quit, live, monitor_state>>
    /\ UNCHANGED mainVars
    /\ UNCHANGED selected_at_key
    /\ UNCHANGED monVars
    /\ UNCHANGED <<snapVars, fmtVars, frameVars>>
    /\ UNCHANGED <<appVars, last_call>>

\* line 340: readchar.readkey() returns a key
InputReadKey ==
    /\ InputAlive
    /\ input_pc = "readkey"
    /\ \E k \in Keys : key' = k
    /\ action' = NoneDict
    /\ cmd_runs' = 0
    /\ exc' = None
    /\ input_pc' = "dispatch"
    /\ UNCHANGED <<should_quit, live, monitor_state>>
    /\ UNCHANGED mainVars
    /\ selected_at_key' = get_selected_container_id_unsafe
    /\ UNCHANGED monVars
    /\ UNCHANGED <<snapVars, fmtVars, frameVars>>
    /\ UNCHANGED <<appVars, last_call>>

\* line 340: readchar.readkey() raises: KeyboardInterrupt on Ctrl+C, or
\* an error of the terminal
InputReadKeyRaises ==
    /\ InputAlive
    /\ input_pc = "readkey"
    /\ \E e \in {"KeyboardInterrupt", "Exception"} : exc' = e
    /\ key' = None
    /\ action' = NoneDict
    /\ cmd_runs' = 0
    /\ input_pc' = "handler"
    /\ UNCHANGED <<should_quit, live, monitor_state>>
    /\ UNCHANGED mainVars
    /\ UNCHANGED selected_at_key
    /\ UNCHANGED monVars
    /\ UNCHANGED <<snapVars, fmtVars, frameVars>>
    /\ UNCHANGED <<appVars, last_call>>

\* lines 342-344: q or Ctrl+C
InputQuitKey ==
    /\ InputAlive
    /\ input_pc = "dispatch"
    /\ key = "CTRL_C" \/ Lower(key) = "q"
    /\ should_quit' = TRUE
    /\ input_pc' = "end"
    /\ key' = None
    /\ UNCHANGED <<action, cmd_runs, exc>>
    /\ UNCHANGED <<live, monitor_state>>
    /\ UNCHANGED mainVars
    /\ UNCHANGED selected_at_key
    /\ UNCHANGED monVars
    /\ UNCHANGED <<snapVars, fmtVars, frameVars>>
    /\ UNCHANGED <<appVars, last_call>>

\* lines 345-348: up, down
InputMove ==
    /\ InputAlive
    /\ input_pc = "dispatch"
    /\ key \in {"UP", "k", "DOWN", "j"}
    /\ move_selection(IF key \in {"UP", "k"} THEN -1 ELSE 1)
    /\ input_pc' = "set_event"
    /\ key' = None
    /\ UNCHANGED <<action, cmd_runs, exc>>
    /\ UNCHANGED <<should_quit, live, monitor_state>>
    /\ UNCHANGED mainVars
    /\ UNCHANGED selected_at_key
    /\ UNCHANGED monVars
    /\ UNCHANGED <<snapVars, fmtVars, frameVars>>
    /\ UNCHANGED last_call

\* lines 349-352: page up, page down
InputPage ==
    /\ InputAlive
    /\ input_pc = "dispatch"
    /\ key \in {"PAGE_UP", "PAGE_DOWN"}
    /\ change_page(IF key = "PAGE_UP" THEN -1 ELSE 1)
    /\ input_pc' = "set_event"
    /\ key' = None
    /\ UNCHANGED <<action, cmd_runs, exc>>
    /\ UNCHANGED <<should_quit, live, monitor_state>>
    /\ UNCHANGED mainVars
    /\ UNCHANGED selected_at_key
    /\ UNCHANGED monVars
    /\ UNCHANGED <<snapVars, fmtVars, frameVars>>
    /\ UNCHANGED last_call

\* lines 353-355: ?: live.stop(), the screen is cleared
InputHelpStop ==
    /\ InputAlive
    /\ input_pc = "dispatch"
    /\ key = "?"
    /\ live' = [live EXCEPT !.started = FALSE]
    /\ input_pc' = "help"
    /\ key' = None
    /\ UNCHANGED <<action, cmd_runs, exc>>
    /\ UNCHANGED <<should_quit, monitor_state>>
    /\ UNCHANGED mainVars
    /\ UNCHANGED selected_at_key
    /\ UNCHANGED monVars
    /\ UNCHANGED <<snapVars, fmtVars, frameVars>>
    /\ UNCHANGED <<appVars, last_call>>

\* lines 356-357: show_help_screen() returns on Enter, live.start
InputHelpReturn ==
    /\ InputAlive
    /\ input_pc = "help"
    /\ live' = [started |-> TRUE, refresh |-> TRUE]
    /\ input_pc' = "set_event"
    /\ UNCHANGED <<key, action, cmd_runs, exc>>
    /\ UNCHANGED <<should_quit, monitor_state>>
    /\ UNCHANGED mainVars
    /\ UNCHANGED selected_at_key
    /\ UNCHANGED monVars
    /\ UNCHANGED <<snapVars, fmtVars, frameVars>>
    /\ UNCHANGED <<appVars, last_call>>

\* line 356: the console.input of show_help_screen() raises
InputHelpRaises ==
    /\ InputAlive
    /\ input_pc = "help"
    /\ exc' = "Exception"
    /\ input_pc' = "handler"
    /\ UNCHANGED <<key, action, cmd_runs>>
    /\ UNCHANGED <<should_quit, live, monitor_state>>
    /\ UNCHANGED mainVars
    /\ UNCHANGED selected_at_key
    /\ UNCHANGED monVars
    /\ UNCHANGED <<snapVars, fmtVars, frameVars>>
    /\ UNCHANGED <<appVars, last_call>>

IsActionKey(k) == Lower(k) \in {"l", "r", "x", "s"}

IsOtherKey(k) ==
    ~(k = "CTRL_C" \/ Lower(k) = "q")
    /\ k \notin {"UP", "k", "DOWN", "j", "PAGE_UP", "PAGE_DOWN", "?"}

\* lines 359-372: an action key with a container selected:
\* run_docker_command is called
InputAction ==
    /\ InputAlive
    /\ input_pc = "dispatch"
    /\ IsOtherKey(key)
    /\ get_selected_container # NoneDict
    /\ IsActionKey(key)
    /\ action' = [command |-> CommandOfKey(key, get_selected_container).command,
                  confirm |-> CommandOfKey(key, get_selected_container).confirm,
                  container_name |-> get_selected_container.name,
                  answer |-> None, outcome |-> None, raised |-> None]
    /\ input_pc' = "rdc_stop"
    /\ key' = None
    /\ UNCHANGED <<cmd_runs, exc>>
    /\ UNCHANGED <<should_quit, live, monitor_state>>
    /\ UNCHANGED mainVars
    /\ UNCHANGED selected_at_key
    /\ UNCHANGED monVars
    /\ UNCHANGED <<snapVars, fmtVars, frameVars>>
    /\ UNCHANGED <<appVars, last_call>>

\* lines 359-372: no container selected, or no key of an action
InputNoAction ==
    /\ InputAlive
    /\ input_pc = "dispatch"
    /\ IsOtherKey(key)
    /\ get_selected_container = NoneDict \/ ~IsActionKey(key)
    /\ input_pc' = "set_event"
    /\ key' = None
    /\ UNCHANGED <<action, cmd_runs, exc>>
    /\ UNCHANGED <<should_quit, live, monitor_state>>
    /\ UNCHANGED mainVars
    /\ UNCHANGED selected_at_key
    /\ UNCHANGED monVars
    /\ UNCHANGED <<snapVars, fmtVars, frameVars>>
    /\ UNCHANGED <<appVars, last_call>>

\* run_docker_command lines 160-161: live_display.stop(), console.clear
RdcStop ==
    /\ InputAlive
    /\ input_pc = "rdc_stop"
    /\ live' = [live EXCEPT !.started = FALSE]
    /\ input_pc' = IF action.confirm THEN "rdc_confirm" ELSE "rdc_run"
    /\ UNCHANGED <<key, action, cmd_runs, exc>>
    /\ UNCHANGED <<should_quit, monitor_state>>
    /\ UNCHANGED mainVars
    /\ UNCHANGED selected_at_key
    /\ UNCHANGED monVars
    /\ UNCHANGED <<snapVars, fmtVars, frameVars>>
    /\ UNCHANGED <<appVars, last_call>>

\* lines 166-173: the prompt is answered
RdcConfirm ==
    /\ InputAlive
    /\ input_pc = "rdc_confirm"
    /\ \E answer \in Answers :
          /\ action' = [action EXCEPT
                          !.answer = answer,
                          !.outcome = IF Confirmed(answer)
                                      THEN None ELSE "aborted"]
          /\ input_pc' = IF Confirmed(answer) THEN "rdc_run"
                                              ELSE "rdc_finally"
    /\ UNCHANGED <<key, cmd_runs, exc>>
    /\ UNCHANGED <<should_quit, live, monitor_state>>
    /\ UNCHANGED mainVars
    /\ UNCHANGED selected_at_key
    /\ UNCHANGED monVars
    /\ UNCHANGED <<snapVars, fmtVars, frameVars>>
    /\ UNCHANGED <<appVars, last_call>>

\* line 169: readkey() raises at the prompt: KeyboardInterrupt (Ctrl+C)
\* passes "except Exception", an Exception is caught by it
RdcConfirmRaises ==
    /\ InputAlive
    /\ input_pc = "rdc_confirm"
    /\ \E e \in {"KeyboardInterrupt", "Exception"} :
          /\ action' = [action EXCEPT !.raised = "confirm"]
          /\ exc' = IF e = "KeyboardInterrupt" THEN e ELSE None
          /\ input_pc' = IF e = "KeyboardInterrupt" THEN "rdc_finally"
                                                    ELSE "rdc_except"
    /\ UNCHANGED <<key, cmd_runs>>
    /\ UNCHANGED <<should_quit, live, monitor_state>>
    /\ UNCHANGED mainVars
    /\ UNCHANGED selected_at_key
    /\ UNCHANGED monVars
    /\ UNCHANGED <<snapVars, fmtVars, frameVars>>
    /\ UNCHANGED <<appVars, last_call>>

\* lines 175-179: os.system runs the streaming command until it ends
RdcRunStreaming ==
    /\ InputAlive
    /\ input_pc = "rdc_run"
    /\ is_streaming_interactive(action.command)
    /\ cmd_runs' = cmd_runs + 1
    /\ action' = [action EXCEPT !.outcome = "streamed"]
    /\ input_pc' = "rdc_finally"
    /\ UNCHANGED <<key, exc>>
    /\ UNCHANGED <<should_quit, live, monitor_state>>
    /\ UNCHANGED mainVars
    /\ UNCHANGED selected_at_key
    /\ UNCHANGED monVars
    /\ UNCHANGED <<snapVars, fmtVars, frameVars>>
    /\ UNCHANGED <<appVars, last_call>>

\* lines 181-192: subprocess.run returns with an exit code
RdcRunCaptured ==
    /\ InputAlive
    /\ input_pc = "rdc_run"
    /\ ~is_streaming_interactive(action.command)
    /\ cmd_runs' = cmd_runs + 1
    /\ \E returncode \in {0, 1} :
          action' = [action EXCEPT !.outcome = IF returncode # 0
                                               THEN "failed" ELSE "success"]
    /\ input_pc' = "rdc_result"
    /\ UNCHANGED <<key, exc>>
    /\ UNCHANGED <<should_quit, live, monitor_state>>
    /\ UNCHANGED mainVars
    /\ UNCHANGED selected_at_key
    /\ UNCHANGED monVars
    /\ UNCHANGED <<snapVars, fmtVars, frameVars>>
    /\ UNCHANGED <<appVars, last_call>>

\* line 181: subprocess.run raises (the command cannot be spawned)
RdcRunRaises ==
    /\ InputAlive
    /\ input_pc = "rdc_run"
    /\ ~is_streaming_interactive(action.command)
    /\ cmd_runs' = cmd_runs + 1
    /\ action' = [action EXCEPT !.raised = "run"]
    /\ input_pc' = "rdc_except"
    /\ UNCHANGED <<key, exc>>
    /\ UNCHANGED <<should_quit, live, monitor_state>>
    /\ UNCHANGED mainVars
    /\ UNCHANGED selected_at_key
    /\ UNCHANGED monVars
    /\ UNCHANGED <<snapVars, fmtVars, frameVars>>
    /\ UNCHANGED <<appVars, last_call>>

\* line 194: the result is shown, console.input returns on Enter
RdcResult ==
    /\ InputAlive
    /\ input_pc = "rdc_result"
    /\ input_pc' = "rdc_finally"
    /\ UNCHANGED <<key, action, cmd_runs, exc>>
    /\ UNCHANGED <<should_quit, live, monitor_state>>
    /\ UNCHANGED mainVars
    /\ UNCHANGED selected_at_key
    /\ UNCHANGED monVars
    /\ UNCHANGED <<snapVars, fmtVars, frameVars>>
    /\ UNCHANGED <<appVars, last_call>>

\* line 194: console.input raises (end of input) while the result is shown
RdcResultRaises ==
    /\ InputAlive
    /\ input_pc = "rdc_result"
    /\ action' = [action EXCEPT !.raised = "result"]
    /\ input_pc' = "rdc_except"
    /\ UNCHANGED <<key, cmd_runs, exc>>
    /\ UNCHANGED <<should_quit, live, monitor_state>>
    /\ UNCHANGED mainVars
    /\ UNCHANGED selected_at_key
    /\ UNCHANGED monVars
    /\ UNCHANGED <<snapVars, fmtVars, frameVars>>
    /\ UNCHANGED <<appVars, last_call>>

\* lines 196-199: the handler logs and shows the error, console.input
\* returns on Enter
RdcExcept ==
    /\ InputAlive
    /\ input_pc = "rdc_except"
    /\ action' = [action EXCEPT !.outcome = "exception"]
    /\ input_pc' = "rdc_finally"
    /\ UNCHANGED <<key, cmd_runs, exc>>
    /\ UNCHANGED <<should_quit, live, monitor_state>>
    /\ UNCHANGED mainVars
    /\ UNCHANGED selected_at_key
    /\ UNCHANGED monVars
    /\ UNCHANGED <<snapVars, fmtVars, frameVars>>
    /\ UNCHANGED <<appVars, last_call>>

\* line 199: the console.input of the handler raises (end of input): the
\* exception leaves run_docker_command
RdcExceptRaises ==
    /\ InputAlive
    /\ input_pc = "rdc_except"
    /\ action' = [action EXCEPT !.outcome = "exception"]
    /\ exc' = "Exception"
    /\ input_pc' = "rdc_finally"
    /\ UNCHANGED <<key, cmd_runs>>
    /\ UNCHANGED <<should_quit, live, monitor_state>>
    /\ UNCHANGED mainVars
    /\ UNCHANGED selected_at_key
    /\ UNCHANGED monVars
    /\ UNCHANGED <<snapVars, fmtVars, frameVars>>
    /\ UNCHANGED <<appVars, last_call>>

\* lines 200-201: finally: the display is restarted; the function returns,
\* or the exception in flight goes on to input_worker
RdcFinally ==
    /\ InputAlive
    /\ input_pc = "rdc_finally"
    /\ live' = LiveAfterAction(exc)
    /\ input_pc' = IF exc = None THEN "set_event" ELSE "handler"
    /\ UNCHANGED <<key, action, cmd_runs, exc>>
    /\ UNCHANGED <<should_quit, monitor_state>>
    /\ UNCHANGED mainVars
    /\ UNCHANGED selected_at_key
    /\ UNCHANGED monVars
    /\ UNCHANGED <<snapVars, fmtVars, frameVars>>
    /\ UNCHANGED <<appVars, last_call>>

\* line 374: app_state.ui_updated_event.set()
InputSetEvent ==
    /\ InputAlive
    /\ input_pc = "set_event"
    /\ ui_updated_event' = TRUE
    /\ input_pc' = "while"
    /\ action' = NoneDict
    /\ cmd_runs' = 0
    /\ UNCHANGED <<key, exc>>
    /\ UNCHANGED <<should_quit, live, monitor_state>>
    /\ UNCHANGED mainVars
    /\ UNCHANGED selected_at_key
    /\ UNCHANGED monVars
    /\ UNCHANGED <<snapVars, fmtVars, frameVars>>
    /\ UNCHANGED <<all_containers, selected_index, container_id_to_index,
                   current_page, last_call>>

\* lines 376-382: except KeyboardInterrupt / except Exception:
\* should_quit.set(), break
InputHandler ==
    /\ InputAlive
    /\ input_pc = "handler"
    /\ should_quit' = TRUE
    /\ input_pc' = "end"
    /\ action' = NoneDict
    /\ cmd_runs' = 0
    /\ UNCHANGED <<key, exc>>
    /\ UNCHANGED <<live, monitor_state>>
    /\ UNCHANGED mainVars
    /\ UNCHANGED selected_at_key
    /\ UNCHANGED monVars
    /\ UNCHANGED <<snapVars, fmtVars, frameVars>>
    /\ UNCHANGED <<appVars, last_call>>

\* line 384: the loop is left: app_state.ui_updated_event.set()
InputEnd ==
    /\ InputAlive
    /\ input_pc = "end"
    /\ ui_updated_event' = TRUE
    /\ input_pc' = "done"
    /\ UNCHANGED <<key, action, cmd_runs, exc>>
    /\ UNCHANGED <<should_quit, live, monitor_state>>
    /\ UNCHANGED mainVars
    /\ UNCHANGED selected_at_key
    /\ UNCHANGED monVars
    /\ UNCHANGED <<snapVars, fmtVars, frameVars>>
    /\ UNCHANGED <<all_containers, selected_index, container_id_to_index,
                   current_page, last_call>>

InputThread ==
    \/ InputLoop
    \/ InputReadKey
    \/ InputReadKeyRaises
    \/ InputQuitKey
    \/ InputMove
    \/ InputPage
    \/ InputHelpStop
    \/ InputHelpReturn
    \/ InputHelpRaises
    \/ InputAction
    \/ InputNoAction
    \/ RdcStop
    \/ RdcConfirm
    \/ RdcConfirmRaises
    \/ RdcRunStreaming
    \/ RdcRunCaptured
    \/ RdcRunRaises
    \/ RdcResult
    \/ RdcResultRaises
    \/ RdcExcept
    \/ RdcExceptRaises
    \/ RdcFinally
    \/ InputSetEvent
    \/ InputHandler
    \/ InputEnd

NextCli == MainThread \/ InputThread

SpecCli == Init /\ [][NextCli]_vars

\* the main thread is scheduled: a step it can take, it takes
SpecCliLive == SpecCli /\ WF_vars(MainThread)

----------------------------------------------------------------------------
(* Claims about the dispatcher and the render loop *)

\* the input thread is inside run_docker_command
RdcPcs == {"rdc_stop", "rdc_confirm", "rdc_run", "rdc_result", "rdc_except",
           "rdc_finally"}

\* ... and past live_display.stop(): the display is suspended for an action
SuspendedPcs == RdcPcs \ {"rdc_stop"}

\* C3: for every action the dispatcher runs, the live display is stopped
\* while the prompt is shown and the command runs, run_docker_command is
\* left only through its finally clause, and the step that leaves it has
\* restarted the display with a forced refresh: aborted, success, failure
\* and exception alike.
C3_DisplayStoppedThenRestarted ==
    /\ [](input_pc \in SuspendedPcs => ~live.started)
    /\ [][(input_pc \in RdcPcs /\ input_pc' \notin RdcPcs)
            => /\ input_pc = "rdc_finally"
               /\ live'.started
               /\ live'.refresh]_vars

\* C3's case: an exception left run_docker_command and the display is
\* started again, refresh forced.
C3_Witness ==
    /\ input_pc = "handler"
    /\ action # NoneDict
    /\ action.raised = "result"
    /\ exc = "Exception"
    /\ live.started
    /\ live.refresh

\* C4: a confirmed action (restart, stop) starts its command exactly once
\* when the answer is y, and not at all for another answer; no keypress
\* starts more than one command.
C4_CommandRunsOnceIffConfirmed ==
    /\ cmd_runs <= 1
    /\ (action # NoneDict /\ action.confirm)
       => IF Lower(action.answer) = "y"
          THEN cmd_runs = (IF input_pc = "rdc_run" THEN 0 ELSE 1)
          ELSE cmd_runs = 0

\* C4's case: r, answered y: docker restart has been started once and the
\* action is over.
C4_Witness ==
    /\ action # NoneDict
    /\ action.command.verb = "restart"
    /\ action.answer = "y"
    /\ cmd_runs = 1
    /\ input_pc = "set_event"

\* C5: while the display is suspended for an action, the render loop
\* performs no live.update(..., refresh=True).
C5_NoRenderWhileSuspended ==
    [][(main_pc = "live_update" /\ main_pc' = "wait")
          => input_pc \notin SuspendedPcs]_vars

\* C6: an exception raised while the command is spawned or run, or while
\* its result is shown, does not leave the dispatcher: no exception is in
\* flight towards input_worker, whose handler would set the quit flag and
\* end the thread.
C6_ActionExceptionStaysInDispatcher ==
    (action # NoneDict /\ action.raised \in {"run", "result"})
    => /\ exc = None
       /\ input_pc # "handler"

\* C7: with the quit flag set the render loop begins no new tick; the main
\* thread is done only with monitor.stop() called, exception or not; and
\* once the flag is set the main thread gets there.
C7_QuitEndsLoopAndStopsMonitor ==
    /\ [][(should_quit /\ main_pc = "while") => main_pc' # "snapshot"]_vars
    /\ [](main_pc = "done" => monitor_state = "stopped")
    /\ (should_quit ~> (main_pc = "done" /\ monitor_state = "stopped"))

\* C7's case: q was read, the input thread has ended, the loop was left by
\* its test and monitor.stop() has been called.
C7_Witness ==
    /\ input_pc = "done"
    /\ exc = None
    /\ should_quit
    /\ main_pc = "done"
    /\ monitor_state = "stopped"

----------------------------------------------------------------------------
(* The container monitor: the daemon, the event worker, the stats workers  *)

\* how many events the stream holds before the event worker takes one
MaxEvents == 2

\* how many signalled stats workers of one container may still be running
MaxStopping == 1

ContainerOf(id) == CHOOSE c \in {ContainerPool[i] : i \in 1..Len(ContainerPool)} : c.id = id

\* the placeholder of a value not sampled
Dash == "-"

\* the cpu and memory strings a stats sample yields
Sampled == "sampled"

\* the exception of inspect for an id the daemon does not hold
NotFound == [error |-> "NotFound"]

\* inspect(id): {Id, Name (leading "/"), State: {Status, StartedAt},
\* Config: {Labels}}
inspect(id) ==
    IF daemon[id] = "absent"
    THEN NotFound
    ELSE [Id |-> id,
          Name |-> <<"/", ContainerOf(id).name>>,
          State |-> [Status |-> daemon[id],
                     StartedAt |-> IF daemon[id] = "created"
                                   THEN "0001-01-01T00:00:00Z"
                                   ELSE "2023-01-01T12:00:00Z"],
          Labels |-> ContainerOf(id).project]

\* the name without the leading separator
StripSlash(name) == IF name[1] = "/" THEN name[2] ELSE name[1]

\* container_status.capitalize()
Capitalize(container_status) ==
    CASE container_status = "running" -> "Running"
      [] container_status = "created" -> "Created"
      [] container_status = "paused"  -> "Paused"
      [] OTHER -> container_status

\* a slip in lines 7-8: the test of a running container is missing
format_statusNoRunning(container_status) ==
    CASE container_status = "restarting" -> "Restarting"
      [] container_status \in {"exited", "dead"} -> "Down"
      [] OTHER -> Capitalize(container_status)

\* the status display of utils.format_status, without its markup
format_status(container_status) ==
    CASE container_status = "running"    -> "Up"
      [] container_status = "restarting" -> "Restarting"
      [] container_status \in {"exited", "dead"} -> "Down"
      [] OTHER -> Capitalize(container_status)

\* a slip: started_at is StartedAt of inspect whatever the status
RecordOfStartedAtKept(data, old) ==
    [id |-> data.Id,
     name |-> StripSlash(data.Name),
     project |-> data.Labels,
     raw_status |-> data.State.Status,
     status |-> format_status(data.State.Status),
     started_at |-> data.State.StartedAt,
     cpu |-> IF old # NoneDict /\ data.State.Status = "running"
             THEN old.cpu ELSE Dash,
     memory |-> IF old # NoneDict /\ data.State.Status = "running"
                THEN old.memory ELSE Dash]

\* the record add_or_update writes from the inspected data; old is the
\* record the map held (NoneDict: none): its samples stay while running
RecordOf(data, old) ==
    [id |-> data.Id,
     name |-> StripSlash(data.Name),
     project |-> data.Labels,
     raw_status |-> data.State.Status,
     status |-> format_status(data.State.Status),
     started_at |-> IF data.State.Status = "running"
                    THEN data.State.StartedAt ELSE None,
     cpu |-> IF old # NoneDict /\ data.State.Status = "running"
             THEN old.cpu ELSE Dash,
     memory |-> IF old # NoneDict /\ data.State.Status = "running"
                THEN old.memory ELSE Dash]

Tracked(id) == id \in DOMAIN monitor_containers

RecordAt(id) == IF Tracked(id) THEN monitor_containers[id] ELSE NoneDict

\* the map with the record of id written / deleted
MapWith(id, record) ==
    [x \in DOMAIN monitor_containers \cup {id} |->
        IF x = id THEN record ELSE monitor_containers[x]]

\* a slip: the delete empties the map
MapWithoutAll(id) == [x \in {} |-> NoneDict]

MapWithout(id) ==
    [x \in DOMAIN monitor_containers \ {id} |-> monitor_containers[x]]

\* the event table of the event worker
AddEvents == {"create", "start", "restart", "health_status", "rename"}

RemoveEvents == {"die", "stop", "kill", "destroy"}

Event(status, id) == [Type |-> "container", status |-> status, id |-> id]

\* the stream is open: the event worker has opened it and not closed it
StreamOpen == event_pc \in {"idle", "join"}

\* the daemon delivers an event on the open stream
Emit(status, id) ==
    /\ StreamOpen => Len(events) < MaxEvents
    /\ events' = IF StreamOpen THEN Append(events, Event(status, id))
                               ELSE events

monitorVars == <<monitor_containers, stats_workers, stopping, joined, event_pc,
                 stop_event, last_event, monitor_state>>

otherVars == <<all_containers, selected_index, container_id_to_index,
               current_page, ui_updated_event, last_call,
               should_quit, live, main_pc, grouped_data,
               input_pc, key, action, cmd_runs, exc, selected_at_key,
               listing, groups,
               stats, cpu, memory, frame_pc, clamped_page, todo, rows>>

(* ---- the daemon ---- *)

DaemonCreate(id) ==
    /\ daemon[id] = "absent"
    /\ daemon' = [daemon EXCEPT ![id] = "created"]
    /\ Emit("create", id)
    /\ UNCHANGED <<monitorVars, otherVars>>

DaemonStart(id) ==
    /\ daemon[id] \in {"created", "exited"}
    /\ daemon' = [daemon EXCEPT ![id] = "running"]
    /\ Emit("start", id)
    /\ UNCHANGED <<monitorVars, otherVars>>

DaemonDie(id) ==
    /\ daemon[id] = "running"
    /\ daemon' = [daemon EXCEPT ![id] = "exited"]
    /\ Emit("die", id)
    /\ UNCHANGED <<monitorVars, otherVars>>

DaemonDestroy(id) ==
    /\ daemon[id] \in {"created", "exited"}
    /\ daemon' = [daemon EXCEPT ![id] = "absent"]
    /\ Emit("destroy", id)
    /\ UNCHANGED <<monitorVars, otherVars>>

\* a health check of a running container reports
DaemonHealth(id) ==
    /\ daemon[id] = "running"
    /\ StreamOpen
    /\ Emit("health_status", id)
    /\ UNCHANGED <<daemon, monitorVars, otherVars>>

\* an event the table does not list
DaemonOther(id) ==
    /\ daemon[id] # "absent"
    /\ StreamOpen
    /\ Emit("attach", id)
    /\ UNCHANGED <<daemon, monitorVars, otherVars>>

\* the daemon is followed until the monitor is asked to stop
Daemon ==
    /\ monitor_state \in {"new", "running"}
    /\ \E id \in MonIds :
        \/ DaemonCreate(id)
        \/ DaemonStart(id)
        \/ DaemonDie(id)
        \/ DaemonDestroy(id)
        \/ DaemonHealth(id)
        \/ DaemonOther(id)

(* ---- run() and stop() ---- *)

\* run(): the initial populate (list all, inspect each, insert a record,
\* a stats worker for every running container), the event worker launched
MonitorRun ==
    /\ monitor_state = "new"
    /\ monitor_containers' = [id \in {x \in MonIds : daemon[x] # "absent"} |->
                         RecordOf(inspect(id), NoneDict)]
    /\ stats_workers' = {id \in MonIds : daemon[id] = "running"}
    /\ event_pc' = "open"
    /\ monitor_state' = "running"
    /\ UNCHANGED <<daemon, events, stopping, joined, stop_event, last_event>>
    /\ UNCHANGED otherVars

\* stop(): the stop signal is set, which signals every worker, and the
\* event stream is closed: the events not yet taken are dropped (the event
\* remove() is handling stays); stop() then joins the workers
MonitorStop ==
    /\ monitor_state = "running"
    /\ stop_event' = TRUE
    /\ events' = IF event_pc = "join" THEN <<Head(events)>> ELSE <<>>
    /\ monitor_state' = "stopping"
    /\ UNCHANGED <<daemon, monitor_containers, stats_workers, stopping,
                   joined, event_pc, last_event>>
    /\ UNCHANGED otherVars

\* every worker has returned
WorkersDone ==
    /\ stats_workers = {}
    /\ \A id \in MonIds : stopping[id] = 0
    /\ joined = None
    /\ event_pc = "closed"

\* a slip: stop() joins its workers without a timeout
JoinOverUnbounded == WorkersDone

\* the joins of stop() are over: every worker has returned, or the timeout
\* of a join has passed
JoinOver == WorkersDone \/ TRUE

\* stop() returns; a join that timed out is logged, not propagated
MonitorStopReturn ==
    /\ monitor_state = "stopping"
    /\ JoinOver
    /\ monitor_state' = "stopped"
    /\ UNCHANGED <<daemon, events, monitor_containers, stats_workers, stopping,
                   joined, event_pc, stop_event, last_event>>
    /\ UNCHANGED otherVars

(* ---- the event worker ---- *)

\* the event worker opens stream_events
EventOpen ==
    /\ event_pc = "open"
    /\ event_pc' = IF stop_event THEN "closed" ELSE "idle"
    /\ UNCHANGED <<daemon, events, monitor_containers, stats_workers, stopping,
                   joined, stop_event, last_event, monitor_state>>
    /\ UNCHANGED otherVars

\* the stop signal: the event worker closes its stream and returns
EventClose ==
    /\ event_pc = "idle"
    /\ stop_event
    /\ event_pc' = "closed"
    /\ events' = <<>>
    /\ UNCHANGED <<daemon, monitor_containers, stats_workers, stopping, joined,
                   stop_event, last_event, monitor_state>>
    /\ UNCHANGED otherVars

Handled(event, result) ==
    [status |-> event.status, id |-> event.id, result |-> result,
     known |-> Tracked(event.id),
     had_worker |-> event.id \in stats_workers]

\* add_or_update: a stats worker is spawned if the status is running and
\* none exists; one that exists is signalled if the status is not running
WorkersAfterUpdate(id, status) ==
    IF status = "running" THEN stats_workers \cup {id}
                          ELSE stats_workers \ {id}

\* add_or_update(id), inspect finds the container: the refreshed record is
\* written; the worker is spawned, or signalled and not waited for
EventAddOrUpdate ==
    /\ event_pc = "idle"
    /\ ~stop_event
    /\ events # <<>>
    /\ Head(events).status \in AddEvents
    /\ LET id == Head(events).id
           data == inspect(id)
       IN  /\ data # NotFound
           /\ monitor_containers' = MapWith(id, RecordOf(data, RecordAt(id)))
           /\ stats_workers' = WorkersAfterUpdate(id, data.State.Status)
           /\ stopping' =
                 IF id \in stats_workers /\ id \notin stats_workers'
                 THEN [stopping EXCEPT ![id] = @ + 1]
                 ELSE stopping
           /\ stopping'[id] <= MaxStopping
           /\ last_event' = Handled(Head(events), "updated")
    /\ events' = Tail(events)
    /\ UNCHANGED <<daemon, joined, event_pc, stop_event, monitor_state>>
    /\ UNCHANGED otherVars

\* a slip: NotFound from inspect is not treated as a remove
AsksRemoveTableOnly(event) == event.status \in RemoveEvents

\* the event at the head of the stream asks for remove(id): its status is
\* in the table, or inspect answers NotFound in add_or_update
AsksRemove(event) ==
    \/ event.status \in RemoveEvents
    \/ event.status \in AddEvents /\ inspect(event.id) = NotFound

\* remove(id) waits for the stats worker it signals
JoinNeeded(id) == id \in stats_workers

\* remove(id): the stats worker, if any, is signalled and joined; with no
\* worker the record is deleted at once
EventRemove ==
    /\ event_pc = "idle"
    /\ ~stop_event
    /\ events # <<>>
    /\ AsksRemove(Head(events))
    /\ LET id == Head(events).id
       IN  /\ last_event' = Handled(Head(events), "removed")
           /\ stats_workers' = stats_workers \ {id}
           /\ IF JoinNeeded(id)
              THEN /\ joined' = id
                   /\ event_pc' = "join"
                   /\ UNCHANGED <<monitor_containers, events, stopping>>
              ELSE /\ monitor_containers' = MapWithout(id)
                   /\ events' = Tail(events)
                   /\ UNCHANGED <<stopping, joined, event_pc>>
    /\ UNCHANGED <<daemon, stop_event, monitor_state>>
    /\ UNCHANGED otherVars

\* remove(id), the worker joined has ended: the record is deleted
EventRemoveJoined ==
    /\ event_pc = "join"
    /\ joined = None
    /\ monitor_containers' = MapWithout(Head(events).id)
    /\ events' = Tail(events)
    /\ event_pc' = "idle"
    /\ UNCHANGED <<daemon, stats_workers, stopping, joined, stop_event,
                   last_event, monitor_state>>
    /\ UNCHANGED otherVars

\* an event of another status is ignored
EventIgnore ==
    /\ event_pc = "idle"
    /\ ~stop_event
    /\ events # <<>>
    /\ Head(events).status \notin AddEvents \cup RemoveEvents
    /\ last_event' = Handled(Head(events), "ignored")
    /\ events' = Tail(events)
    /\ UNCHANGED <<daemon, monitor_containers, stats_workers, stopping, joined,
                   event_pc, stop_event, monitor_state>>
    /\ UNCHANGED otherVars

EventWorker ==
    \/ EventOpen
    \/ EventClose
    \/ EventAddOrUpdate
    \/ EventRemove
    \/ EventRemoveJoined
    \/ EventIgnore

(* ---- the stats workers ---- *)

\* a slip: the sample is written whether or not the map holds the id
PatchedAlways(id) ==
    [x \in DOMAIN monitor_containers \cup {id} |->
        IF x = id
        THEN [id |-> id, cpu |-> Sampled, memory |-> Sampled]
        ELSE monitor_containers[x]]

\* the record of id patched with a sample, iff the map still holds it
Patched(id) ==
    IF Tracked(id)
    THEN [monitor_containers EXCEPT ![id].cpu = Sampled,
                                    ![id].memory = Sampled]
    ELSE monitor_containers

\* a sample arrives at the stats worker of id
StatsSample(id) ==
    /\ id \in stats_workers
    /\ daemon[id] = "running"
    /\ ~stop_event
    /\ monitor_containers' = Patched(id)
    /\ UNCHANGED <<daemon, events, stats_workers, stopping, joined, event_pc,
                   stop_event, last_event, monitor_state>>
    /\ UNCHANGED otherVars

\* a worker already signalled handles the sample it was waiting for
StatsLateSample(id) ==
    /\ stopping[id] > 0 \/ joined = id
    /\ daemon[id] = "running"
    /\ monitor_containers' = Patched(id)
    /\ monitor_containers' # monitor_containers
    /\ UNCHANGED <<daemon, events, stats_workers, stopping, joined, event_pc,
                   stop_event, last_event, monitor_state>>
    /\ UNCHANGED otherVars

\* the stream of id ends (the container stopped), or the monitor-wide stop
\* signal is seen: the worker returns
StatsReturn(id) ==
    /\ id \in stats_workers
    /\ daemon[id] # "running" \/ stop_event
    /\ stats_workers' = stats_workers \ {id}
    /\ UNCHANGED <<daemon, events, monitor_containers, stopping, joined, event_pc,
                   stop_event, last_event, monitor_state>>
    /\ UNCHANGED otherVars

\* a worker signalled by add_or_update sees the signal and returns
StatsStopped(id) ==
    /\ stopping[id] > 0
    /\ stopping' = [stopping EXCEPT ![id] = @ - 1]
    /\ UNCHANGED <<daemon, events, monitor_containers, stats_workers, joined,
                   event_pc, stop_event, last_event, monitor_state>>
    /\ UNCHANGED otherVars

\* the worker remove() joins sees the signal and returns
StatsJoined(id) ==
    /\ joined = id
    /\ joined' = None
    /\ UNCHANGED <<daemon, events, monitor_containers, stats_workers, stopping,
                   event_pc, stop_event, last_event, monitor_state>>
    /\ UNCHANGED otherVars

StatsWorkers ==
    \E id \in MonIds :
        \/ StatsSample(id)
        \/ StatsLateSample(id)
        \/ StatsReturn(id)
        \/ StatsStopped(id)
        \/ StatsJoined(id)

NextMonitor ==
    \/ Daemon
    \/ MonitorRun
    \/ MonitorStop
    \/ MonitorStopReturn
    \/ EventWorker
    \/ StatsWorkers

SpecMonitor == Init /\ [][NextMonitor]_vars

\* the event worker and the stats workers are scheduled
SpecMonitorLive ==
    SpecMonitor /\ WF_vars(EventWorker) /\ WF_vars(StatsWorkers)

\* the thread that called stop() is scheduled; the workers may never be
SpecMonitorStop == SpecMonitor /\ WF_vars(MonitorStopReturn)

----------------------------------------------------------------------------
(* The claims about the container monitor                                  *)

\* the stats workers of id that have not returned: the one the monitor
\* holds a handle of, those signalled by add_or_update and the one remove
\* is joining
LiveWorkers(id) ==
    (IF id \in stats_workers THEN 1 ELSE 0)
    + stopping[id]
    + (IF joined = id THEN 1 ELSE 0)

\* C8: in every reachable state of the monitor there is at most one live
\* stats worker per container id, and a stats worker exists for an id only
\* while the record of that id is in the map with raw_status "running",
\* whatever the order of the events of that id.
C8_OneStatsWorkerWhileRunning ==
    \A id \in MonIds :
        /\ LiveWorkers(id) <= 1
        /\ LiveWorkers(id) > 0 =>
              /\ Tracked(id)
              /\ monitor_containers[id].raw_status = "running"

\* the event worker handles a remove event of c in this step
RemoveStepOf(c) ==
    /\ events # <<>>
    /\ Head(events).id = c
    /\ Head(events).status \in RemoveEvents
    /\ EventRemove \/ EventRemoveJoined

\* C9: when a die (stop, kill, destroy) event of a container c is processed,
\* every step of remove(c) leaves the record and the stats workers of every
\* other container as they were, the stats worker of c is signalled, the
\* record of c stays only while that worker is joined, and when the event is
\* done c is not in the map and the worker remove signalled has returned.
C9_RemoveTouchesOnlyItsContainer ==
    [][\A c \in MonIds :
        RemoveStepOf(c) =>
            /\ \A d \in MonIds \ {c} :
                  /\ RecordAt(d)' = RecordAt(d)
                  /\ (d \in stats_workers') = (d \in stats_workers)
                  /\ stopping'[d] = stopping[d]
                  /\ (joined' = d) = (joined = d)
            /\ c \notin stats_workers'
            /\ stopping'[c] = stopping[c]
            /\ Tracked(c)' => joined' = c /\ events' = events
            /\ events' = Tail(events) =>
                  /\ ~Tracked(c)'
                  /\ joined' = None
                  /\ event_pc' = "idle"]_vars

\* c1 and c2 were in the map, c1 with a stats worker; the die event of c1
\* is done: c1 is gone, its worker returned, c2 and its worker are there
C9_Witness ==
    /\ last_event = [status |-> "die", id |-> "c1", result |-> "removed",
                     known |-> TRUE, had_worker |-> TRUE]
    /\ event_pc = "idle"
    /\ joined = None
    /\ ~Tracked("c1")
    /\ LiveWorkers("c1") = 0
    /\ Tracked("c2")
    /\ monitor_containers["c2"].raw_status = "running"
    /\ "c2" \in stats_workers

\* a start event of id is the next event of the stream, id is not in the
\* map and inspect of id returns a running container
StartPending(id) ==
    /\ event_pc = "idle"
    /\ ~stop_event
    /\ events # <<>>
    /\ Head(events) = Event("start", id)
    /\ ~Tracked(id)
    /\ daemon[id] = "running"

\* C10: a start event for an id that is not in the map, whose inspect
\* returns a running container, can always be handled by the event worker,
\* and the step that handles it puts the id in the map with the inspected
\* name (without its leading separator) and status, and gives it a stats
\* worker; as long as it is not handled it stays the next event unless
\* stop() closes the stream, so under a fair schedule of the event worker it
\* is handled or the monitor stopped.
C10_StartEventTracksContainer ==
    /\ [](\A id \in MonIds : StartPending(id) => ENABLED EventAddOrUpdate)
    /\ [][\A id \in MonIds :
            StartPending(id) =>
                \/ /\ EventAddOrUpdate
                   /\ Tracked(id)'
                   /\ monitor_containers'[id].id = id
                   /\ monitor_containers'[id].name = ContainerOf(id).name
                   /\ monitor_containers'[id].raw_status = "running"
                   /\ monitor_containers'[id].status = "Up"
                   /\ id \in stats_workers'
                \/ /\ events' # <<>>
                   /\ Head(events') = Head(events)
                   /\ ~Tracked(id)'
                \/ stop_event']_vars
    /\ \A id \in MonIds :
          StartPending(id) ~>
              \/ stop_event
              \/ /\ last_event # NoneDict
                 /\ last_event.status = "start"
                 /\ last_event.id = id

\* the start event of c1, not in the map before, has been handled: c1 is
\* in the map as inspected and has a stats worker
C10_Witness ==
    /\ last_event = [status |-> "start", id |-> "c1", result |-> "updated",
                     known |-> FALSE, had_worker |-> FALSE]
    /\ Tracked("c1")
    /\ monitor_containers["c1"].name = "A"
    /\ monitor_containers["c1"].status = "Up"
    /\ "c1" \in stats_workers
    /\ LiveWorkers("c1") = 1

\* the containers the daemon lists, running or not
Listed == {id \in MonIds : daemon[id] # "absent"}

\* the event worker has handled every event the daemon delivered
AllEventsProcessed ==
    /\ monitor_state = "running"
    /\ event_pc = "idle"
    /\ events = <<>>

\* C11: the map of the monitor tracks the daemon: whenever every delivered
\* event has been processed, the ids in the map are the containers the
\* daemon reports, running or not (as they are after the initial populate).
C11_MapEqualsDaemonWhenIdle ==
    AllEventsProcessed => DOMAIN monitor_containers = Listed

\* the records a reader finds in a snapshot taken now: get_grouped_containers
\* copies the records of the map under the lock
SnapshotRecords == {monitor_containers[id] : id \in DOMAIN monitor_containers}

----------------------------------------------------------------------------
(* The production of a snapshot and of the flat list                       *)

\* how many containers of ContainerPool a listing may hold
NumListed == 3

\* the orders in which the containers may be met
Listings == Arrangements({ContainerPool[i] : i \in 1..NumListed})

\* list.sort(key=...) and sorted(...): a stable sort; rank[x] is the place
\* of the key of x in the ascending order of the keys
RECURSIVE SortedBy(_, _)
SortedBy(s, rank) ==
    IF s = <<>> THEN <<>>
    ELSE LET x == Head(s)
             rest == SortedBy(Tail(s), rank)
             smaller == SelectSeq(rest, LAMBDA y : rank[y] < rank[x])
             others == SelectSeq(rest, LAMBDA y : rank[y] >= rank[x])
         IN  smaller \o <<x>> \o others

\* sort(key=lambda c: c['name']) on a list of containers
SortedByName(s) ==
    SortedBy(s, [c \in {s[i] : i \in 1..Len(s)} |-> Rank(NameOrder, c.name)])

\* grouped_containers[project].append(...): the projects in the order they
\* are first met, each with its containers in the order they are met
RECURSIVE FirstMet(_)
FirstMet(s) ==
    IF s = <<>> THEN <<>>
    ELSE LET before == FirstMet(SubSeq(s, 1, Len(s) - 1))
             project == s[Len(s)].project
         IN  IF \E i \in 1..Len(before) : before[i] = project
             THEN before
             ELSE Append(before, project)

Grouped(s) ==
    LET projects == FirstMet(s)
    IN  [i \in 1..Len(projects) |->
            [project |-> projects[i],
             containers |->
                 SelectSeq(s, LAMBDA c : c.project = projects[i])]]

\* sorted(grouped_containers.items()), sorted(groups.keys())
SortedByProject(g) ==
    SortedBy(g, [e \in {g[i] : i \in 1..Len(g)} |->
                    Rank(ProjectOrder, e.project)])

\* a slip in lines 75-78: the groups are returned as they were built
get_grouped_containersUnsorted(s) == Grouped(s)

\* lines 73-78 of get_grouped_containers: the containers appended to the
\* list of their project, each list sorted by name, the items sorted
get_grouped_containers(s) ==
    LET grouped == Grouped(s)
    IN  SortedByProject(
            [i \in 1..Len(grouped) |->
                [project |-> grouped[i].project,
                 containers |-> SortedByName(grouped[i].containers)]])

RECURSIVE Extended(_)
Extended(g) ==
    IF g = <<>> THEN <<>>
    ELSE SortedByName(Head(g).containers) \o Extended(Tail(g))

\* lines 217-220 of generate_ui: flat_list extended with the sorted
\* containers of each project, the project names sorted
flat_list(g) == Extended(SortedByProject(g))

\* monitor.get_grouped_containers() returns a snapshot
GetGroupedContainers ==
    /\ \E s \in Listings :
          /\ listing' = s
          /\ groups' = get_grouped_containers(s)
    /\ UNCHANGED <<appVars, last_call>>
    /\ UNCHANGED cliVars
    /\ UNCHANGED monVars
    /\ UNCHANGED <<fmtVars, frameVars>>

\* generate_ui, lines 217-221: the flat list of the snapshot is handed to
\* update_containers
GenerateUi ==
    /\ update_containers(flat_list(groups))
    /\ all_containers' # all_containers
    /\ UNCHANGED last_call
    /\ UNCHANGED cliVars
    /\ UNCHANGED monVars
    /\ UNCHANGED <<snapVars, fmtVars, frameVars>>

\* the operator moves the selection between two ticks
SnapshotMove ==
    /\ \E delta \in {-1, 1} : move_selection(delta)
    /\ selected_index' # selected_index
    /\ UNCHANGED last_call
    /\ UNCHANGED cliVars
    /\ UNCHANGED monVars
    /\ UNCHANGED <<snapVars, fmtVars, frameVars>>

NextSnapshot ==
    \/ GetGroupedContainers
    \/ GenerateUi
    \/ SnapshotMove

SpecSnapshot == Init /\ [][NextSnapshot]_vars

\* the containers of the groups of g, one group after the other
RECURSIVE Concatenated(_)
Concatenated(g) ==
    IF g = <<>> THEN <<>>
    ELSE Head(g).containers \o Concatenated(Tail(g))

\* C13: in every snapshot the projects are in ascending order of name and
\* the containers of each project in ascending order of name; the flat list
\* built from it is the concatenation of the projects' lists in that order,
\* and the list the app state holds is in that order too.
C13_SnapshotAndFlatListSorted ==
    /\ \A i \in 1..Len(groups) :
          /\ \A j \in 1..(i - 1) :
                Rank(ProjectOrder, groups[j].project)
                    < Rank(ProjectOrder, groups[i].project)
          /\ \A k \in 1..Len(groups[i].containers) :
                /\ groups[i].containers[k].project = groups[i].project
                /\ \A j \in 1..(k - 1) :
                      Rank(NameOrder, groups[i].containers[j].name)
                          < Rank(NameOrder, groups[i].containers[k].name)
    /\ UNION {{groups[i].containers[k] :
                  k \in 1..Len(groups[i].containers)} : i \in 1..Len(groups)}
           = {listing[i] : i \in 1..Len(listing)}
    /\ flat_list(groups) = Concatenated(groups)
    /\ \A i \in 1..Len(all_containers) :
          \A j \in 1..(i - 1) : Before(all_containers[j], all_containers[i])

\* a listing that meets p2 before p1 and AA before A; its snapshot is in
\* order and the app state holds its flat list
C13_Witness ==
    /\ listing = <<ContainerPool[2], ContainerPool[3], ContainerPool[1]>>
    /\ Len(groups) = 2
    /\ groups[1].project = "p1"
    /\ all_containers =
           <<ContainerPool[1], ContainerPool[3], ContainerPool[2]>>

----------------------------------------------------------------------------
(* Claims about stop() and the stats workers                               *)

\* C14: after stop() is called it returns: its return never waits for a
\* worker longer than the timeout of the join, so it is enabled whatever
\* the workers do and stop() returns even if no worker ever takes a step;
\* a stats worker or the event worker that sees the stop signal returns;
\* the return of stop() changes nothing but the state of the monitor.
C14_StopReturns ==
    /\ [](monitor_state = "stopping" => ENABLED MonitorStopReturn)
    /\ (monitor_state = "stopping") ~> (monitor_state = "stopped")
    /\ [](stop_event =>
            /\ \A id \in stats_workers : ENABLED StatsReturn(id)
            /\ event_pc = "idle" => ENABLED EventClose
            /\ event_pc = "open" => ENABLED EventOpen)
    /\ [][stop_event =>
            /\ \A id \in MonIds : StatsReturn(id) => id \notin stats_workers'
            /\ (EventClose \/ EventOpen) => event_pc' = "closed"
            /\ MonitorStopReturn =>
                  /\ monitor_state' = "stopped"
                  /\ UNCHANGED <<stats_workers, stopping, joined, event_pc,
                                 monitor_containers>>]_vars

\* stop() has returned although a stats worker and the event worker have
\* not returned yet
C14_Witness ==
    /\ monitor_state = "stopped"
    /\ stop_event
    /\ stats_workers # {}
    /\ event_pc = "idle"

----------------------------------------------------------------------------
(* More claims about the AppState                                          *)

\* C15: move_selection(d), d = +1 or -1, on a non-empty list sets
\* selected_index to min(max(old + d, 0), len - 1): at index 0 a move of -1
\* and at index len - 1 a move of +1 leave it where it is.
C15_MoveSelectionClamps ==
    (last_call.op = "move_selection" /\ last_call.containers # <<>>)
    => /\ all_containers = last_call.containers
       /\ selected_index =
              Min(Max(last_call.index + last_call.arg, 0),
                  Len(all_containers) - 1)
       /\ (last_call.index = 0 /\ last_call.arg = -1) => selected_index = 0
       /\ (last_call.index = Len(all_containers) - 1 /\ last_call.arg = 1)
              => selected_index = last_call.index

\* a move of +1 at the last index of a list of three containers
C15_Witness ==
    /\ last_call.op = "move_selection"
    /\ Len(last_call.containers) = 3
    /\ last_call.index = 2
    /\ last_call.arg = 1
    /\ selected_index = 2

\* C16, as the spec states it: every call of move_selection(+1/-1) sets
\* the ui_updated signal before it returns.
C16_MoveSelectionAlwaysSignals ==
    last_call.op = "move_selection" => ui_updated_event

\* C16, corrected: a call of move_selection(+1/-1) sets the ui_updated
\* signal before it returns iff it moved selected_index; a call on an empty
\* list or against an end of the list leaves the signal as it was.
C16_MoveSelectionSignalsIffMoved ==
    [][MoveSelection =>
          /\ selected_index' # selected_index => ui_updated_event'
          /\ selected_index' = selected_index =>
                 ui_updated_event' = ui_updated_event]_vars

\* move_selection(+1) at the last index has returned, the signal is clear
C16_Witness ==
    /\ last_call.op = "move_selection"
    /\ last_call.containers # <<>>
    /\ last_call.arg = 1
    /\ last_call.index = Len(all_containers) - 1
    /\ selected_index = last_call.index
    /\ ~ui_updated_event

ClampPage ==
    /\ last_call = NoCall
    /\ current_page' = IF all_containers = <<>>
                       THEN current_page
                       ELSE ClampedPage(all_containers, current_page)
    /\ last_call' = Called("generate_ui", None)
    /\ UNCHANGED <<all_containers, selected_index, container_id_to_index,
                   ui_updated_event>>
    /\ UNCHANGED cliVars
    /\ UNCHANGED monVars
    /\ UNCHANGED <<snapVars, fmtVars, frameVars>>

NextStateUi ==
    \/ NextState
    \/ ClampPage

\* the AppState with the calls and the assignment generate_ui makes
SpecStateUi == Init /\ [][NextStateUi]_vars

\* C18, as the spec states it: when update_containers(L) returns,
\* current_page is inside its valid range for L.
C18_UpdateContainersClampsPage ==
    last_call.op = "update_containers"
    => /\ 0 <= current_page
       /\ current_page <= Max(0, TotalPages(all_containers) - 1)

\* C18, corrected: update_containers(L) leaves current_page as it was;
\* generate_ui, which called it, then clamps current_page into
\* 0..total_pages - 1 when L is not empty and leaves it when L is empty.
C18_GenerateUiClampsPage ==
    /\ last_call.op = "update_containers" => current_page = last_call.page
    /\ last_call.op = "generate_ui" =>
          IF all_containers = <<>>
          THEN current_page = last_call.page
          ELSE /\ 0 <= current_page
               /\ current_page < TotalPages(all_containers)
               /\ current_page =
                      Min(last_call.page, TotalPages(all_containers) - 1)

\* the list shrank from two pages to one while page 1 was shown, and
\* generate_ui has clamped the page
C18_Witness ==
    /\ last_call.op = "generate_ui"
    /\ all_containers # <<>>
    /\ TotalPages(all_containers) = 1
    /\ last_call.page = 1
    /\ current_page = 0

\* C19: a render tick does not modify the app state: the flat list, the
\* id-to-index map, selected_index and the page are after generate_ui what
\* they were before it.
C19_RenderTickLeavesAppState ==
    [][(MainUpdateContainers \/ MainLayout) =>
          UNCHANGED <<all_containers, container_id_to_index, selected_index,
                      current_page>>]_vars

\* C20: a stats worker never creates or resurrects a record: a sample
\* handled when the map does not hold the id leaves the map as it is, and a
\* sample for a record of the map changes only the cpu and memory fields of
\* that record, to the values computed from the sample; every step of a
\* stats worker that handles a sample, signalled or not, does just that.
C20_SampleOnlyPatches ==
    /\ [](\A id \in MonIds :
            /\ ~Tracked(id) => Patched(id) = monitor_containers
            /\ Tracked(id) =>
                  /\ DOMAIN Patched(id) = DOMAIN monitor_containers
                  /\ \A d \in DOMAIN monitor_containers \ {id} :
                        Patched(id)[d] = monitor_containers[d]
                  /\ Patched(id)[id] =
                        [monitor_containers[id] EXCEPT !.cpu = Sampled,
                                                       !.memory = Sampled])
    /\ [][\A id \in MonIds :
            (StatsSample(id) \/ StatsLateSample(id)) =>
                /\ monitor_containers' = Patched(id)
                /\ DOMAIN monitor_containers' = DOMAIN monitor_containers
                /\ Tracked(id)
                /\ monitor_containers'[id].raw_status
                       = monitor_containers[id].raw_status
                /\ monitor_containers'[id].cpu = Sampled]_vars
    /\ [][DOMAIN monitor_containers' # DOMAIN monitor_containers =>
            MonitorRun \/ EventAddOrUpdate \/ EventRemove
                \/ EventRemoveJoined]_vars

\* the record of c1 was removed while a stats worker of c1 that was
\* signalled has not returned, and c1 runs again: its next sample is due
C20_Witness ==
    /\ ~Tracked("c1")
    /\ stopping["c1"] > 0
    /\ daemon["c1"] = "running"
    /\ last_event # NoneDict
    /\ last_event.id = "c1"
    /\ last_event.result = "removed"
    /\ Tracked("c2")
    /\ monitor_containers["c2"].cpu = Sampled

\* add_or_update(c) is due and inspect of c answers NotFound
NotFoundPending(c) ==
    /\ event_pc = "idle"
    /\ ~stop_event
    /\ events # <<>>
    /\ Head(events).id = c
    /\ Head(events).status \in AddEvents
    /\ inspect(c) = NotFound

\* the event worker takes a step of add_or_update(c) after NotFound: the
\* first step of the remove, or its last step after the join
NotFoundStepOf(c) ==
    \/ NotFoundPending(c) /\ EventRemove
    \/ /\ event_pc = "join"
       /\ Head(events).id = c
       /\ Head(events).status \in AddEvents
       /\ EventRemoveJoined

\* C21: when inspect answers NotFound in add_or_update(c), the event worker
\* can take its step (no error ends it), the step is that of remove(c): the
\* stats worker of c, if any, is signalled and no other container is
\* touched, and when the event is done c is not in the map and the event
\* worker is idle, with the later events of the stream still there and the
\* next of them, if any, ready to be handled.
C21_NotFoundIsRemove ==
    /\ [](\A c \in MonIds : NotFoundPending(c) => ENABLED EventRemove)
    /\ [](\A c \in MonIds : NotFoundPending(c) => ~ENABLED EventAddOrUpdate)
    /\ [][\A c \in MonIds :
            NotFoundStepOf(c) =>
                /\ c \notin stats_workers'
                /\ \A d \in MonIds \ {c} :
                      /\ RecordAt(d)' = RecordAt(d)
                      /\ (d \in stats_workers') = (d \in stats_workers)
                /\ event_pc' \in {"idle", "join"}
                /\ Tracked(c)' => event_pc' = "join" /\ joined' = c
                /\ event_pc' = "idle" =>
                      /\ ~Tracked(c)'
                      /\ events' = Tail(events)
                      /\ joined' = None]_vars
    /\ [](\A c \in MonIds :
            (/\ last_event # NoneDict
             /\ last_event.id = c
             /\ last_event.status \in AddEvents
             /\ last_event.result = "removed"
             /\ event_pc = "idle"
             /\ ~stop_event
             /\ events # <<>>) => ENABLED EventWorker)

\* c1 was in the map with a stats worker when the create event of c1 was
\* handled and inspect answered NotFound: c1 is gone, its worker has
\* returned, and the event worker is idle with a later event to handle
C21_Witness ==
    /\ last_event = [status |-> "create", id |-> "c1", result |-> "removed",
                     known |-> TRUE, had_worker |-> TRUE]
    /\ event_pc = "idle"
    /\ ~stop_event
    /\ events # <<>>
    /\ ~Tracked("c1")
    /\ "c1" \notin stats_workers
    /\ joined = None

----------------------------------------------------------------------------
(* The formatters of a stats sample: utils.py 56-113 *)

\* the largest power of 1024 a size of a sample is a multiple of
MaxExp == 5

\* the largest number of cpus a sample reports
MaxCpus == 4

\* a key the dict does not hold
Missing == [missing |-> TRUE]

\* a key the dict holds with the value None (null in the JSON of the daemon)
Null == [null |-> TRUE]

\* a key the dict holds with a number
Num(n) == [num |-> n]

IsNum(x) == DOMAIN x = {"num"}

\* dict.get(key, default)
Get(x, default) == IF x = Missing THEN default ELSE x

\* "[grey50]-[/grey50]", the placeholder dash
Placeholder == [markup |-> "grey50", dash |-> TRUE]

\* f"[{color}]{percent:.2f}%[/{color}]": the colour and the hundredths of
\* the percentage
Percent(color, hundredths) == [markup |-> color, hundredths |-> hundredths]

\* (cpu_delta / system_cpu_delta) * online_cpus * 100.0 in hundredths, as
\* "{percent:.2f}" rounds it
Hundredths(cpu_delta, system_cpu_delta, online_cpus) ==
    (2 * cpu_delta * online_cpus * 10000 + system_cpu_delta)
        \div (2 * system_cpu_delta)

\* lines 103-107: red above 80, yellow above 50, cyan otherwise
ColorOf(cpu_delta, system_cpu_delta, online_cpus) ==
    IF cpu_delta * online_cpus * 100 > 80 * system_cpu_delta THEN "red"
    ELSE IF cpu_delta * online_cpus * 100 > 50 * system_cpu_delta
         THEN "yellow"
         ELSE "cyan"

\* calculate_cpu_percent(stats): a key that is missing is read as its
\* default; a None in the arithmetic or in len() raises TypeError, which
\* line 110 turns into the placeholder
calculate_cpu_percent(s) ==
    LET total == Get(s.total_usage, Num(0))
        pre_total == Get(s.pre_total_usage, Num(0))
        system == Get(s.system_cpu_usage, Num(0))
        pre_system == Get(s.pre_system_cpu_usage, Num(0))
        given == Get(s.online_cpus, Num(0))
        percpu == Get(s.percpu_usage, Num(1))
        online_cpus == IF given = Num(0) THEN percpu ELSE given
    IN  IF ~IsNum(total) \/ ~IsNum(pre_total)
           \/ ~IsNum(system) \/ ~IsNum(pre_system)
        THEN Placeholder
        ELSE IF given = Num(0) /\ ~IsNum(percpu)
        THEN Placeholder
        ELSE LET cpu_delta == total.num - pre_total.num
                 system_cpu_delta == system.num - pre_system.num
             IN  IF system_cpu_delta > 0 /\ cpu_delta > 0
                 THEN IF ~IsNum(online_cpus)
                      THEN Placeholder
                      ELSE Percent(ColorOf(cpu_delta, system_cpu_delta,
                                           online_cpus.num),
                                   Hundredths(cpu_delta, system_cpu_delta,
                                              online_cpus.num))
                 ELSE Percent("grey50", 0)

\* 1024 to the power k
RECURSIVE Pow1024(_)
Pow1024(k) == IF k = 0 THEN 1 ELSE 1024 * Pow1024(k - 1)

\* a size in bytes is written m * 1024^e (e may be negative once the size
\* has been divided); m is below 1024^3
Size(m, e) == [m |-> m, e |-> e]

\* size >= power, power = 1024
AtLeastPower(size) ==
    IF size.e >= 1 THEN size.m >= 1
    ELSE IF size.e >= -1 THEN size.m >= Pow1024(1 - size.e)
    ELSE FALSE

\* size /= power
Divided(size) == Size(size.m, size.e - 1)

KeyError == [error |-> "KeyError"]

ZeroDivisionError == [error |-> "ZeroDivisionError"]

\* power_labels = {0: '', 1: 'K', 2: 'M', 3: 'G', 4: 'T'}
power_labels == <<"", "K", "M", "G", "T">>

\* f"{size:.1f}{label}iB": the tenths of the number, rounded, times
\* 1024^e, and the label
Bytes(size, label) ==
    [tenths |-> IF size.e >= 0
                THEN 10 * size.m
                ELSE (20 * size.m + Pow1024(0 - size.e))
                         \div (2 * Pow1024(0 - size.e)),
     e |-> Max(size.e, 0),
     label |-> label]

\* line 61: n < len(power_labels)
LoopGoesOn(n) == n < Len(power_labels)

\* _format_bytes(size), lines 58-64: the loop, then the label of n, which
\* power_labels does not hold when n is 5
RECURSIVE format_bytes_loop(_, _)
format_bytes_loop(size, n) ==
    IF AtLeastPower(size) /\ LoopGoesOn(n)
    THEN format_bytes_loop(Divided(size), n + 1)
    ELSE IF n + 1 \in DOMAIN power_labels
         THEN Bytes(size, power_labels[n + 1])
         ELSE KeyError

format_bytes(size) == format_bytes_loop(size, 0)

\* format_memory_stats(mem_stats), lines 68-82: the placeholder if usage or
\* limit is None (missing, or held as None); usage / limit raises
\* ZeroDivisionError for a limit of 0; then the two sizes are formatted.
\* The percentage and its colour are not carried here.
format_memory_stats(mem_stats) ==
    LET usage == Get(mem_stats.usage, Null)
        limit == Get(mem_stats.limit, Null)
    IN  IF usage = Null \/ limit = Null THEN Placeholder
        ELSE IF limit.m = 0 THEN ZeroDivisionError
        ELSE IF format_bytes(usage) = KeyError
                \/ format_bytes(limit) = KeyError
        THEN KeyError
        ELSE [usage |-> format_bytes(usage), limit |-> format_bytes(limit)]

\* the counters of a sample: absent, None, or a count of nanoseconds
Counters == {Missing, Null} \cup {Num(n) : n \in {0, 1000, 2000, 5000}}

SystemCounters == {Missing} \cup {Num(n) : n \in {2500, 5000, 10000}}

CpuCounts == {Missing, Null} \cup {Num(n) : n \in 0..MaxCpus}

\* the cpu part of a stats sample
CpuSamples ==
    [total_usage : Counters,
     pre_total_usage : {Missing, Num(0), Num(1000)},
     system_cpu_usage : SystemCounters,
     pre_system_cpu_usage : {Missing, Num(5000)},
     online_cpus : CpuCounts,
     percpu_usage : {Missing, Null, Num(0), Num(2)}]

\* the sizes of a sample
Sizes ==
    {Size(m, 0) : m \in {-1, 0, 1, 1023, 1024, 1536, 1048576}}
        \cup {Size(m, e) : m \in {1, 50, 100, 1023}, e \in 1..MaxExp}

\* memory_stats of a stats sample
MemSamples == [usage : Sizes \cup {Missing}, limit : Sizes \cup {Missing}]

\* the sample of test_monitor_stats_worker_updates_container
TestCpu ==
    [total_usage |-> Num(2000), pre_total_usage |-> Num(1000),
     system_cpu_usage |-> Num(10000), pre_system_cpu_usage |-> Num(5000),
     online_cpus |-> Num(2), percpu_usage |-> Missing]

TestMem == [usage |-> Size(50, 2), limit |-> Size(100, 2)]

StatsSamples ==
    {[cpu_stats |-> c, memory_stats |-> TestMem] : c \in CpuSamples}
        \cup {[cpu_stats |-> TestCpu, memory_stats |-> m] : m \in MemSamples}

\* the stats stream yields its next sample
ReadSample ==
    /\ stats = NoneDict
    /\ \E s \in StatsSamples : stats' = s
    /\ cpu' = NoneDict
    /\ memory' = NoneDict
    /\ UNCHANGED <<appVars, last_call>>
    /\ UNCHANGED cliVars
    /\ UNCHANGED monVars
    /\ UNCHANGED <<snapVars, frameVars>>

CalculateCpuPercent ==
    /\ stats # NoneDict
    /\ cpu = NoneDict
    /\ cpu' = calculate_cpu_percent(stats.cpu_stats)
    /\ UNCHANGED <<stats, memory>>
    /\ UNCHANGED <<appVars, last_call>>
    /\ UNCHANGED cliVars
    /\ UNCHANGED monVars
    /\ UNCHANGED <<snapVars, frameVars>>

FormatMemoryStats ==
    /\ stats # NoneDict
    /\ memory = NoneDict
    /\ memory' = format_memory_stats(stats.memory_stats)
    /\ UNCHANGED <<stats, cpu>>
    /\ UNCHANGED <<appVars, last_call>>
    /\ UNCHANGED cliVars
    /\ UNCHANGED monVars
    /\ UNCHANGED <<snapVars, frameVars>>

\* both displays of the sample are computed: the worker is done with it
SampleDone ==
    /\ stats # NoneDict
    /\ cpu # NoneDict
    /\ memory # NoneDict
    /\ stats' = NoneDict
    /\ cpu' = NoneDict
    /\ memory' = NoneDict
    /\ UNCHANGED <<appVars, last_call>>
    /\ UNCHANGED cliVars
    /\ UNCHANGED monVars
    /\ UNCHANGED <<snapVars, frameVars>>

NextFormat ==
    \/ ReadSample
    \/ CalculateCpuPercent
    \/ FormatMemoryStats
    \/ SampleDone

SpecFormat == Init /\ [][NextFormat]_vars

\* the number of cpus of the sample as the formula of the display states
\* it: online_cpus if non-zero, else the number of per-cpu entries if
\* non-zero, else 1
OnlineOf(s) ==
    IF IsNum(s.online_cpus) /\ s.online_cpus # Num(0)
    THEN s.online_cpus.num
    ELSE IF IsNum(s.percpu_usage) /\ s.percpu_usage # Num(0)
         THEN s.percpu_usage.num
         ELSE 1

\* one of the four counters of the sample is missing
CounterMissing(s) ==
    \E x \in {s.total_usage, s.pre_total_usage, s.system_cpu_usage,
              s.pre_system_cpu_usage} : ~IsNum(x)

\* C22: the CPU percent of one stats sample: the placeholder dash when one
\* of the counters is missing; otherwise, with delta_c and delta_s the
\* differences of the current and the previous counters and online the
\* number of cpus (online_cpus if non-zero, else the number of per-cpu
\* entries if non-zero, else 1), (delta_c / delta_s) * online * 100 in
\* cyan up to 50, yellow up to 80, red above, when both differences are
\* positive, and 0.00% in grey when they are not.
C22_CpuPercentOfSample ==
    cpu # NoneDict =>
        LET s == stats.cpu_stats
        IN  IF CounterMissing(s)
            THEN cpu = Placeholder
            ELSE LET delta_c == s.total_usage.num - s.pre_total_usage.num
                     delta_s == s.system_cpu_usage.num
                                    - s.pre_system_cpu_usage.num
                 IN  IF delta_s > 0 /\ delta_c > 0
                     THEN cpu = Percent(ColorOf(delta_c, delta_s,
                                                OnlineOf(s)),
                                        Hundredths(delta_c, delta_s,
                                                   OnlineOf(s)))
                     ELSE cpu = Percent("grey50", 0)

\* the text the byte formatting is stated to give for a size >= 0: divided
\* by 1024 until it is below 1024 or the label T is reached
RECURSIVE DividedUpToT(_, _)
DividedUpToT(size, n) ==
    IF AtLeastPower(size) /\ n < Len(power_labels) - 1
    THEN DividedUpToT(Divided(size), n + 1)
    ELSE Bytes(size, power_labels[n + 1])

\* C23: byte formatting: a size >= 0 is divided by 1024 until it is below
\* 1024 or the label T is reached and is shown with one decimal and one of
\* the labels '', K, M, G, T; a negative size is shown as the placeholder
\* dash; the memory display is the placeholder when usage or limit is
\* missing, and otherwise holds the texts of both sizes.
C23_ByteFormatting ==
    memory # NoneDict =>
        LET m == stats.memory_stats
        IN  IF m.usage = Missing \/ m.limit = Missing
            THEN memory = Placeholder
            ELSE memory =
                    [usage |-> IF m.usage.m < 0 THEN Placeholder
                               ELSE DividedUpToT(m.usage, 0),
                     limit |-> IF m.limit.m < 0 THEN Placeholder
                               ELSE DividedUpToT(m.limit, 0)]

----------------------------------------------------------------------------
(* generate_ui building a frame row by row (cli.py 203-278) while the      *)
(* input thread calls move_selection and change_page.  update_containers,  *)
(* move_selection and change_page hold the lock of AppState; generate_ui   *)
(* reads and assigns current_page and reads selected_index without it.     *)
(* last_call holds the last call of AppState and the state it started from *)

\* the most containers a snapshot of the render loop holds
NumFrame == 7

\* the snapshots the render loop may take: the first n containers of the
\* pool, in the order the daemon lists them
FrameListings ==
    {[i \in 1..n |-> ContainerPool[i]] : n \in 0..NumFrame}

\* groups.get(project_name, [])
GroupGet(g, project_name) ==
    IF \E i \in 1..Len(g) : g[i].project = project_name
    THEN g[CHOOSE i \in 1..Len(g) : g[i].project = project_name].containers
    ELSE <<>>

\* lines 238-240: projects[start_idx:end_idx]
displayed_projects(L, page) ==
    LET projects == SortedProjects(L)
        start_idx == page * projects_per_page
        end_idx == start_idx + projects_per_page
    IN  SubSeq(projects, start_idx + 1, Min(end_idx, Len(projects)))

\* lines 243-254: the containers of the displayed projects, in the order
\* their rows are added
RECURSIVE ContainersOfProjects(_, _)
ContainersOfProjects(g, ps) ==
    IF ps = <<>> THEN <<>>
    ELSE GroupGet(g, Head(ps)) \o ContainersOfProjects(g, Tail(ps))

\* lines 255-256: the style of the row of a container
row_style(container) ==
    LET global_index ==
            IF container.id \in DOMAIN container_id_to_index
            THEN container_id_to_index[container.id]
            ELSE -1
    IN  IF global_index = selected_index THEN "on blue" ELSE ""

\* line 395: the render loop takes a snapshot
FrameSnapshot ==
    /\ frame_pc = "idle"
    /\ \E s \in FrameListings :
          /\ listing' = s
          /\ groups' = get_grouped_containers(s)
    /\ frame_pc' = "update"
    /\ todo' = <<>>
    /\ rows' = <<>>
    /\ UNCHANGED <<appVars, last_call, clamped_page>>
    /\ UNCHANGED cliVars
    /\ UNCHANGED monVars
    /\ UNCHANGED fmtVars

\* lines 217-223: the flat list is handed to update_containers
FrameUpdateContainers ==
    /\ frame_pc = "update"
    /\ update_containers(flat_list(groups))
    /\ last_call' = Called("update_containers", flat_list(groups))
    /\ frame_pc' = IF flat_list(groups) = <<>> THEN "show" ELSE "clamp"
    /\ UNCHANGED <<clamped_page, todo, rows>>
    /\ UNCHANGED cliVars
    /\ UNCHANGED monVars
    /\ UNCHANGED <<snapVars, fmtVars>>

\* lines 231-236, the right-hand side: current_page is read and clamped
FrameClampPage ==
    /\ frame_pc = "clamp"
    /\ clamped_page' = ClampedPage(all_containers, current_page)
    /\ frame_pc' = "assign"
    /\ UNCHANGED <<appVars, last_call, todo, rows>>
    /\ UNCHANGED cliVars
    /\ UNCHANGED monVars
    /\ UNCHANGED <<snapVars, fmtVars>>

\* lines 234-236, the assignment: state.current_page is written, the lock
\* of AppState not held
FrameAssignPage ==
    /\ frame_pc = "assign"
    /\ current_page' = clamped_page
    /\ frame_pc' = "page"
    /\ UNCHANGED <<all_containers, selected_index, container_id_to_index,
                   ui_updated_event, last_call, clamped_page, todo, rows>>
    /\ UNCHANGED cliVars
    /\ UNCHANGED monVars
    /\ UNCHANGED <<snapVars, fmtVars>>

\* lines 238-240: the projects of the page are taken
FramePage ==
    /\ frame_pc = "page"
    /\ todo' = ContainersOfProjects(
                   groups, displayed_projects(all_containers, current_page))
    /\ frame_pc' = "rows"
    /\ UNCHANGED <<appVars, last_call, clamped_page, rows>>
    /\ UNCHANGED cliVars
    /\ UNCHANGED monVars
    /\ UNCHANGED <<snapVars, fmtVars>>

\* lines 254-264: the row of the next container is added
FrameRow ==
    /\ frame_pc = "rows"
    /\ todo # <<>>
    /\ rows' = Append(rows, [id |-> Head(todo).id,
                             style |-> row_style(Head(todo))])
    /\ todo' = Tail(todo)
    /\ UNCHANGED <<appVars, last_call, frame_pc, clamped_page>>
    /\ UNCHANGED cliVars
    /\ UNCHANGED monVars
    /\ UNCHANGED <<snapVars, fmtVars>>

\* lines 266-278: the tables are complete, the layout is returned
FrameLayout ==
    /\ frame_pc = "rows"
    /\ todo = <<>>
    /\ frame_pc' = "show"
    /\ UNCHANGED <<appVars, last_call, clamped_page, todo, rows>>
    /\ UNCHANGED cliVars
    /\ UNCHANGED monVars
    /\ UNCHANGED <<snapVars, fmtVars>>

\* line 397: live.update(ui_layout, refresh=True): the frame is shown
FrameShow ==
    /\ frame_pc = "show"
    /\ frame_pc' = "wait"
    /\ UNCHANGED <<appVars, last_call, clamped_page, todo, rows>>
    /\ UNCHANGED cliVars
    /\ UNCHANGED monVars
    /\ UNCHANGED <<snapVars, fmtVars>>

\* lines 399-400: the wait is over, ui_updated_event is cleared
FrameWait ==
    /\ frame_pc = "wait"
    /\ ui_updated_event' = FALSE
    /\ frame_pc' = "idle"
    /\ UNCHANGED <<all_containers, selected_index, container_id_to_index,
                   current_page, last_call, clamped_page, todo, rows>>
    /\ UNCHANGED cliVars
    /\ UNCHANGED monVars
    /\ UNCHANGED <<snapVars, fmtVars>>

\* lines 345-352: the input thread moves the selection or changes the page
FrameInput ==
    /\ \E delta \in {-1, 1} :
          \/ /\ move_selection(delta)
             /\ last_call' = Called("move_selection", delta)
          \/ /\ change_page(delta)
             /\ last_call' = Called("change_page", delta)
    /\ UNCHANGED cliVars
    /\ UNCHANGED monVars
    /\ UNCHANGED <<snapVars, fmtVars, frameVars>>

Renderer ==
    \/ FrameSnapshot
    \/ FrameUpdateContainers
    \/ FrameClampPage
    \/ FrameAssignPage
    \/ FramePage
    \/ FrameRow
    \/ FrameLayout
    \/ FrameShow
    \/ FrameWait

NextFrame == Renderer \/ FrameInput

SpecFrame == Init /\ [][NextFrame]_vars

\* the rows of r that are highlighted
Highlighted(r) == {i \in 1..Len(r) : r[i].style = "on blue"}

\* C24: in every frame generate_ui returns, at most one row is highlighted
\* and a highlighted row is the row of the container at selected_index,
\* whatever the input thread did while the frame was built.
C24_OneRowHighlighted ==
    [][FrameLayout =>
          /\ Cardinality(Highlighted(rows)) <= 1
          /\ \A i \in Highlighted(rows) :
                rows[i].id = get_selected_container_id_unsafe]_vars

\* how many of the distinct projects of L come before project p in the
\* sorted order: the index of p among the sorted distinct project names
ProjectIndex(L, p) ==
    Cardinality({q \in {L[i].project : i \in 1..Len(L)} :
                    Rank(ProjectOrder, q) < Rank(ProjectOrder, p)})

\* C25: after a move_selection call that changed selected_index, and after
\* a change_page call on a non-empty list, the project of the selected
\* container is one of the projects of the current page: current_page is
\* the index of that project among the sorted distinct project names
\* divided by projects_per_page, rounded down.
C25_SelectedOnCurrentPage ==
    (\/ last_call.op = "move_selection" /\ selected_index # last_call.index
     \/ last_call.op = "change_page" /\ all_containers # <<>>) =>
        LET selected_project == all_containers[selected_index + 1].project
        IN  /\ current_page
                  = ProjectIndex(all_containers, selected_project)
                        \div projects_per_page
            /\ \E i \in 1..Len(displayed_projects(all_containers,
                                                  current_page)) :
                  displayed_projects(all_containers, current_page)[i]
                      = selected_project

\* C26 as stated: a command is invoked only if a container was selected
\* when the key was pressed (readkey() returned), and its target id is the
\* id of the container selected at that moment.
C26_CommandTargetsSelectionAtKeypress ==
    [][InputAction =>
          /\ selected_at_key # None
          /\ action'.command.id = selected_at_key]_vars

\* C26: when the handler of an action key (l, r, x, s) finds no container
\* selected (get_selected_container on an empty flat list), no command is
\* invoked and the display is not suspended: the handler goes on to signal
\* a UI update; when a command is invoked, its target id is the id of the
\* container selected when the handler looked the selection up, and it is
\* that id until the command has run, whatever the selection does
\* meanwhile.
C26_CommandTargetsSelectionAtLookup ==
    /\ [][(/\ input_pc = "dispatch"
           /\ IsActionKey(key)
           /\ all_containers = <<>>
           /\ InputThread) =>
              /\ input_pc' = "set_event"
              /\ UNCHANGED <<live, cmd_runs, action>>]_vars
    /\ [][InputSetEvent => ui_updated_event']_vars
    /\ [][InputAction =>
              /\ all_containers # <<>>
              /\ action'.command.id = get_selected_container_id_unsafe
              /\ action'.container_name = get_selected_container.name]_vars
    /\ [][cmd_runs' > cmd_runs =>
              /\ action # NoneDict
              /\ action'.command = action.command
              /\ action.command.id \in {ContainerPool[i].id :
                                           i \in 1..NumCliContainers}]_vars
    /\ [][(action # NoneDict /\ action' # NoneDict) =>
              action'.command = action.command]_vars

\* a command has run on c1, which the handler found selected, although no
\* container was selected when the key was pressed
C26_Witness ==
    /\ cmd_runs = 1
    /\ action # NoneDict
    /\ action.command.id = "c1"
    /\ selected_at_key = None

====
